---- MODULE Spec2Model ----
(***************************************************************************)
(* CloudWatch data source connector samples: the moving average, time      *)
(* shift, histogram, threshold filter, multi-region and hello world        *)
(* connectors, each modelled as the state machine of one Lambda invocation *)
(* (request -> validation -> backend fetch -> transform -> response).      *)
(* Times are epoch seconds, Date objects are epoch milliseconds.           *)
(***************************************************************************)
EXTENDS Integers, Sequences, FiniteSets, TLC

VARIABLES
    maPc,       \* moving average: "start" | "fetching" | "done"
    maReq,      \* moving average: event.GetMetricDataRequest
    maData,     \* moving average: the backend's getMetricData result
    maResp,     \* moving average: the handler's return value
    tsPc,       \* time shift: "start" | "fetching" | "done"
    tsReq,      \* time shift: event.GetMetricDataRequest
    tsData,     \* time shift: the backend's getMetricData result
    tsResp,     \* time shift: the handler's return value
    binArgs,    \* histogram bin mapping: the values getBinNumber is applied to
    binOut,     \* histogram bin mapping: the bin numbers returned
    hPc,        \* histogram: "start" | "fetchingStats" | "defs" | "fetchingData" | "done"
    hReq,       \* histogram: the request's Arguments
    hStats,     \* histogram: basicStats
    hLoop,      \* histogram: the loop state of getHistogramMetricDefinitions
    hData,      \* histogram: the percentages the backend returned, per query
    hResp,      \* histogram: the handler's return value
    fPc,        \* filter: "start" | "fetching" | "done"
    fReq,       \* filter: the request's Arguments
    fData,      \* filter: the backend's MetricDataResults
    fResp,      \* filter: the handler's return value
    mrPc,       \* multi-region: "start" | "fetching" | "done"
    mrReq,      \* multi-region: the request's Arguments
    mrCalls,    \* multi-region: the state of each regional getMetricData promise
    mrOrder,    \* multi-region: the calls in the order in which they settled
    mrResp,     \* multi-region: the handler's return value
    hwPc,       \* hello world: "start" | "loop" | "done"
    hwReq,      \* hello world: event.GetMetricDataRequest
    hwLoop,     \* hello world: currentTime and data of the handler's loop
    hwResp,     \* hello world: the handler's return value
    ePc,        \* any connector's exports.handler: "start" | "fetching" | "done"
    eEvent,     \* the connector invoked and its event (EventType, Arguments)
    eFetches,   \* the number of getMetricData calls issued so far
    eParams,    \* what validateGetMetricDataRequest returned
    eResp,      \* the handler's return value
    pfmArg,     \* parseFullMetric: the string it is applied to
    pfmOut,     \* parseFullMetric: its result or the error it throws
    durArg,     \* parseISO8601DurationString: the string it is applied to
    durOut      \* parseISO8601DurationString: the number it returns

maVars == <<maPc, maReq, maData, maResp>>

tsVars == <<tsPc, tsReq, tsData, tsResp>>

binVars == <<binArgs, binOut>>

hVars == <<hPc, hReq, hStats, hLoop, hData, hResp>>

fVars == <<fPc, fReq, fData, fResp>>

mrVars == <<mrPc, mrReq, mrCalls, mrOrder, mrResp>>

hwVars == <<hwPc, hwReq, hwLoop, hwResp>>

eVars == <<ePc, eEvent, eFetches, eParams, eResp>>

pfmVars == <<pfmArg, pfmOut>>

durVars == <<durArg, durOut>>

\* the variables of the filter, multi-region and hello world connectors, of the
\* handlers' entry, of parseFullMetric and of parseISO8601DurationString
restVars == <<fVars, mrVars, hwVars, eVars, pfmVars, durVars>>

vars == <<maPc, maReq, maData, maResp, tsPc, tsReq, tsData, tsResp, binArgs, binOut,
          hPc, hReq, hStats, hLoop, hData, hResp, fPc, fReq, fData, fResp,
          mrPc, mrReq, mrCalls, mrOrder, mrResp, hwPc, hwReq, hwLoop, hwResp,
          ePc, eEvent, eFetches, eParams, eResp, pfmArg, pfmOut, durArg, durOut>>

----------------------------------------------------------------------------
(* Bounds of the model *)

\* largest numberOfDatapoints (window length N) a request carries
MaxN == 3

\* largest number of grid points StartTime + k*Period inside the query window
MaxSlots == 2

\* largest numberOfShifts a time shift request carries
MaxShifts == 2

\* largest number of samples in the series the time shift fetches
MaxSamples == 3

\* lattice points per histogram bin: a magnitude is (1 + EPSILON)^(q / BinSubdivisions)
BinSubdivisions == 2

\* largest bucketCount a histogram request carries
MaxBuckets == 3

\* largest SampleCount the backend reports
MaxSampleCount == 3

\* values a backend sample can take (0 is a sample, not a gap)
SampleValues == {0, 1}

\* the periods, in seconds, a request can carry
Periods == {1, 2}

----------------------------------------------------------------------------
(* Shared helpers *)

\* "no value": what a lookup of a missing key yields (JavaScript undefined)
Undefined == << >>

Some(v) == << v >>

\* the filter connector is not invoked
FilterIdle == fPc = "idle" /\ fReq = Undefined /\ fData = Undefined /\ fResp = Undefined

\* the multi-region connector is not invoked
MRIdle ==
    /\ mrPc = "idle"
    /\ mrReq = Undefined
    /\ mrCalls = Undefined
    /\ mrOrder = Undefined
    /\ mrResp = Undefined

\* the hello world connector is not invoked
HWIdle == hwPc = "idle" /\ hwReq = Undefined /\ hwLoop = Undefined /\ hwResp = Undefined

\* no handler entry is followed
EntryIdle ==
    /\ ePc = "idle"
    /\ eEvent = Undefined
    /\ eFetches = 0
    /\ eParams = Undefined
    /\ eResp = Undefined

\* parseFullMetric is not applied
PfmIdle == pfmArg = Undefined /\ pfmOut = Undefined

\* parseISO8601DurationString is not applied
DurIdle == durArg = Undefined /\ durOut = Undefined

\* none of the above is invoked
RestIdle == FilterIdle /\ MRIdle /\ HWIdle /\ EntryIdle /\ PfmIdle /\ DurIdle

MsPerSec == 1000

\* new Date(seconds * 1000)
NewDate(seconds) == seconds * MsPerSec

RECURSIVE Gcd(_, _)
Gcd(a, b) == IF b = 0 THEN a ELSE Gcd(b, a % b)

\* the number n / d (d > 0, n >= 0), as an exact fraction in lowest terms
Divide(n, d) == LET g == Gcd(n, d) IN << n \div g, d \div g >>

\* the moving average's StartTime: the connector reads no absolute time, only
\* differences, so one StartTime with room for every lookback below it
\* stands for all
MAStartTime == (MaxN + 1) * 2

Max(S) == CHOOSE x \in S : \A y \in S : y <= x

Min(S) == CHOOSE x \in S : \A y \in S : x <= y

\* the elements of a finite set of integers, largest first
RECURSIVE SeqDesc(_)
SeqDesc(S) == IF S = {} THEN << >> ELSE << Max(S) >> \o SeqDesc(S \ {Max(S)})

\* the backend's series for the samples f (instant in seconds -> value):
\* Date timestamps, newest first (the service's default order), and values
SeriesOf(id, f) ==
    LET ts == SeqDesc(DOMAIN f)
    IN  [Id |-> id,
         Timestamps |-> [i \in 1..Len(ts) |-> NewDate(ts[i])],
         Values |-> [i \in 1..Len(ts) |-> f[ts[i]]]]

----------------------------------------------------------------------------
(* Moving average connector *)

\* ts.getTime() / 1000 as a property key: a whole number of seconds is the
\* key a later lookup by `time` finds, a fractional one is never looked up
MAKey(date) == IF date % MsPerSec = 0 THEN date \div MsPerSec ELSE << date >>

\* timestampMap: metricData.Timestamps.forEach(... timestampMap[key] = value)
MATimestampMap(metricData) ==
    LET n == Len(metricData.Timestamps)
        keys == {MAKey(metricData.Timestamps[i]) : i \in 1..n}
        last(k) == Max({i \in 1..n : MAKey(metricData.Timestamps[i]) = k})
    IN  [k \in keys |-> metricData.Values[last(k)]]

\* timestampMap[time] with the sample 0 taken for a gap
MALookupZeroIsGap(map, time) ==
    IF time \in DOMAIN map /\ map[time] # 0 THEN Some(map[time]) ELSE Undefined

\* timestampMap[time]
MALookup(map, time) == IF time \in DOMAIN map THEN Some(map[time]) ELSE Undefined

\* MAStep with the evicted sample left in currentSampleCount
MAStepKeepsCount(map, st, time, StartTime) ==
    LET value == MALookup(map, time)
        pushed == Append(st.window, value)
        count1 == IF value # Undefined THEN st.count + 1 ELSE st.count
        total1 == IF value # Undefined THEN st.total + value[1] ELSE st.total
        shifts == time > StartTime
        first == Head(pushed)
        window2 == IF shifts THEN Tail(pushed) ELSE pushed
        total2 == IF shifts /\ first # Undefined THEN total1 - first[1] ELSE total1
        emits == time >= StartTime /\ count1 > 0
    IN  [window |-> window2, count |-> count1, total |-> total2,
         ts |-> IF emits THEN Append(st.ts, time) ELSE st.ts,
         vs |-> IF emits THEN Append(st.vs, Divide(total2, count1)) ELSE st.vs]

\* MAStep without the test time >= StartTime before emitting
MAStepEmitsEarly(map, st, time, StartTime) ==
    LET value == MALookup(map, time)
        pushed == Append(st.window, value)
        count1 == IF value # Undefined THEN st.count + 1 ELSE st.count
        total1 == IF value # Undefined THEN st.total + value[1] ELSE st.total
        shifts == time > StartTime
        first == Head(pushed)
        window2 == IF shifts THEN Tail(pushed) ELSE pushed
        count2 == IF shifts /\ first # Undefined THEN count1 - 1 ELSE count1
        total2 == IF shifts /\ first # Undefined THEN total1 - first[1] ELSE total1
        emits == count2 > 0
    IN  [window |-> window2, count |-> count2, total |-> total2,
         ts |-> IF emits THEN Append(st.ts, time) ELSE st.ts,
         vs |-> IF emits THEN Append(st.vs, Divide(total2, count2)) ELSE st.vs]

\* One pass of the for loop's body at `time`, on the loop state
\* st = [window, count, total, ts, vs]
MAStep(map, st, time, StartTime) ==
    LET value == MALookup(map, time)
        pushed == Append(st.window, value)
        count1 == IF value # Undefined THEN st.count + 1 ELSE st.count
        total1 == IF value # Undefined THEN st.total + value[1] ELSE st.total
        shifts == time > StartTime
        first == Head(pushed)
        window2 == IF shifts THEN Tail(pushed) ELSE pushed
        count2 == IF shifts /\ first # Undefined THEN count1 - 1 ELSE count1
        total2 == IF shifts /\ first # Undefined THEN total1 - first[1] ELSE total1
        emits == time >= StartTime /\ count2 > 0
    IN  [window |-> window2, count |-> count2, total |-> total2,
         ts |-> IF emits THEN Append(st.ts, time) ELSE st.ts,
         vs |-> IF emits THEN Append(st.vs, Divide(total2, count2)) ELSE st.vs]

\* for (let time = revisedStartTime; time < EndTime; time += Period)
RECURSIVE MALoop(_, _, _, _, _, _)
MALoop(map, st, time, StartTime, EndTime, Period) ==
    IF time < EndTime
    THEN MALoop(map, MAStep(map, st, time, StartTime), time + Period,
                StartTime, EndTime, Period)
    ELSE st

metricDataToMovingAverage(metricData, revisedStartTime, StartTime, EndTime, Period) ==
    LET st0 == [window |-> << >>, count |-> 0, total |-> 0, ts |-> << >>, vs |-> << >>]
        st == MALoop(MATimestampMap(metricData), st0, revisedStartTime,
                     StartTime, EndTime, Period)
    IN  [Timestamps |-> st.ts, Values |-> st.vs, Status |-> "Complete"]

\* timerData.Timestamps.reduce((acc, val) => (acc < val ? acc : val))
RECURSIVE ReduceEarliest(_, _, _)
ReduceEarliest(acc, timestamps, i) ==
    IF i > Len(timestamps) THEN acc
    ELSE ReduceEarliest(IF acc < timestamps[i] THEN acc ELSE timestamps[i],
                        timestamps, i + 1)

MAEarliestTimestamp(timerData) ==
    ReduceEarliest(timerData.Timestamps[1], timerData.Timestamps, 2)

\* StartTime - (numberOfDatapoints - 1) * Period
MARevisedStartTime(req) == req.StartTime - (req.numberOfDatapoints - 1) * req.Period

\* The requests an invocation can carry
MARequests ==
    {r \in [StartTime : {MAStartTime},
            EndTime : (MAStartTime + 1)..(MAStartTime + MaxSlots * 2),
            Period : Periods,
            numberOfDatapoints : 1..MaxN] :
        /\ r.EndTime > r.StartTime
        /\ r.EndTime <= r.StartTime + MaxSlots * r.Period}

\* The instants e, e + Period, ... below EndTime
GridFrom(e, EndTime, Period) ==
    {t \in e..(EndTime - 1) : (t - e) % Period = 0}

\* What the backend can answer to the query [revisedStartTime, EndTime) with
\* queries m1 and timer: the timer series has a point at every instant of
\* the period grid the backend has, which starts at or after the requested
\* start rounded down by less than a period; m1 has a sample at some of them.
\* The two results come in either order.
MABackendResultsFrom(e, req) ==
    LET grid == GridFrom(e, req.EndTime, req.Period)
        timer == SeriesOf("timer", [t \in grid |-> 10])
        samples == UNION { [P -> SampleValues] : P \in SUBSET grid }
    IN  { IF m1First THEN << SeriesOf("m1", f), timer >>
                     ELSE << timer, SeriesOf("m1", f) >> :
          f \in samples, m1First \in BOOLEAN }

MABackendResults(req) ==
    UNION { MABackendResultsFrom(e, req) :
            e \in (MARevisedStartTime(req) - (req.Period - 1))..(req.EndTime - 1) }

\* the time shift connector is not invoked
TSIdle == tsPc = "idle" /\ tsReq = Undefined /\ tsData = Undefined /\ tsResp = Undefined

MAFrame == UNCHANGED <<tsVars, binVars, hVars, restVars>>

\* the histogram connector is not invoked
HistIdle ==
    /\ hPc = "idle"
    /\ hReq = Undefined
    /\ hStats = Undefined
    /\ hLoop = Undefined
    /\ hData = Undefined
    /\ hResp = Undefined

\* getBinNumber is not applied
BinIdle == binArgs = Undefined /\ binOut = Undefined

MAInit ==
    /\ TSIdle
    /\ RestIdle
    /\ BinIdle
    /\ HistIdle
    /\ maPc = "start"
    /\ maReq \in MARequests
    /\ maData = Undefined
    /\ maResp = Undefined

\* validateGetMetricDataRequest throws; exports.handler catches
MAValidationFails ==
    /\ maPc = "start"
    /\ maReq.numberOfDatapoints < 2
    /\ maPc' = "done"
    /\ maResp' = [Error |-> [Code |-> "Validation"]]
    /\ UNCHANGED <<maReq, maData>>
    /\ MAFrame

\* validation passes and cloudwatch.getMetricData is awaited
MAFetch ==
    /\ maPc = "start"
    /\ ~(maReq.numberOfDatapoints < 2)
    /\ maPc' = "fetching"
    /\ UNCHANGED <<maReq, maData, maResp>>
    /\ MAFrame

\* the awaited call rejects; exports.handler catches
MAFetchFails ==
    /\ maPc = "fetching"
    /\ maPc' = "done"
    /\ maResp' = [Error |-> [Code |-> "InternalError"]]
    /\ UNCHANGED <<maReq, maData>>
    /\ MAFrame

\* the awaited call resolves and the handler runs to its return
MAFetchReturns ==
    /\ maPc = "fetching"
    /\ \E d \in MABackendResults(maReq) :
        LET firstMetric == d[1]
            secondMetric == d[2]
            metricData == IF firstMetric.Id = "m1" THEN firstMetric ELSE secondMetric
            timerData == IF secondMetric.Id = "timer" THEN secondMetric ELSE firstMetric
            earliestTimestamp == MAEarliestTimestamp(timerData)
        IN  /\ maData' = d
            /\ maResp' = [MetricDataResults |->
                            << metricDataToMovingAverage(metricData,
                                   earliestTimestamp \div MsPerSec,
                                   maReq.StartTime, maReq.EndTime, maReq.Period) >>]
    /\ maPc' = "done"
    /\ UNCHANGED maReq
    /\ MAFrame

MANext == MAValidationFails \/ MAFetch \/ MAFetchFails \/ MAFetchReturns

SpecMA == MAInit /\ [][MANext]_vars

----------------------------------------------------------------------------
(* Time shift connector *)

\* A duration string that matches stringPattern, as its capture groups
\* (days, hours, minutes, seconds): each Undefined or the digits' number; the
\* seconds group carries its optional fraction in milliseconds
Duration(d, h, m, sec) == [days |-> d, hours |-> h, mins |-> m, secs |-> sec]

\* 'PT<n>S'
PTnS(n) == Duration(Undefined, Undefined, Undefined, Some([int |-> n, millis |-> 0]))

\* the duration strings a request of this model carries: PT0S, PT1S, PT2S
DurationStrings == {PTnS(n) : n \in 0..2}

\* parseInt(group, 10), 0 for a group that did not take part in the match
ParseIntGroup(g) == IF g = Undefined THEN 0 ELSE g[1]

\* parseInt of the seconds group stops at the decimal point
ParseIntSecs(g) == IF g = Undefined THEN 0 ELSE g[1].int

parseISO8601DurationString(str) ==
    LET days == ParseIntGroup(str.days)
        hours == ParseIntGroup(str.hours)
        mins == ParseIntGroup(str.mins)
        secs == ParseIntSecs(str.secs)
    IN  ((days * 24 + hours) * 60 + mins) * 60 + secs

\* convertSecondsToHumanReadable, as the numbers it displays
convertSecondsToHumanReadable(seconds) ==
    [d |-> seconds \div (3600 * 24),
     h |-> (seconds % (3600 * 24)) \div 3600,
     m |-> (seconds % 3600) \div 60,
     s |-> seconds % 60]

\* date.toISOString(): the instant's seconds and milliseconds, written out
ToISOString(date) == << date \div MsPerSec, date % MsPerSec >>

\* fullMetricDataMap: Timestamps.forEach(... map[ts.toISOString()] = value)
TSMetricDataMap(fullMetricData) ==
    LET n == Len(fullMetricData.Timestamps)
        keys == {ToISOString(fullMetricData.Timestamps[i]) : i \in 1..n}
        last(k) == Max({i \in 1..n : ToISOString(fullMetricData.Timestamps[i]) = k})
    IN  [k \in keys |-> fullMetricData.Values[last(k)]]

\* fullMetricDataMap[shiftedIsoTimestamp]
TSLookup(map, key) == IF key \in DOMAIN map THEN Some(map[key]) ELSE Undefined

\* TSWalk with the test `if (value)`, which takes the sample 0 for a gap
RECURSIVE TSWalkTruthy(_, _, _, _, _, _)
TSWalkTruthy(map, metric, time, EndTime, Period, timeOffset) ==
    IF time < EndTime
    THEN LET shiftedTimestamp == time - timeOffset
             shiftedIsoTimestamp == ToISOString(NewDate(shiftedTimestamp))
             value == TSLookup(map, shiftedIsoTimestamp)
             next == IF value # Undefined /\ value # Some(0)
                     THEN [metric EXCEPT !.Timestamps = Append(@, time),
                                         !.Values = Append(@, value[1])]
                     ELSE metric
         IN  TSWalkTruthy(map, next, time + Period, EndTime, Period, timeOffset)
    ELSE metric

\* for (let time = StartTime; time < EndTime; time += Period) of shift i
RECURSIVE TSWalk(_, _, _, _, _, _)
TSWalk(map, metric, time, EndTime, Period, timeOffset) ==
    IF time < EndTime
    THEN LET shiftedTimestamp == time - timeOffset
             shiftedIsoTimestamp == ToISOString(NewDate(shiftedTimestamp))
             value == TSLookup(map, shiftedIsoTimestamp)
             next == IF value # Undefined
                     THEN [metric EXCEPT !.Timestamps = Append(@, time),
                                         !.Values = Append(@, value[1])]
                     ELSE metric
         IN  TSWalk(map, next, time + Period, EndTime, Period, timeOffset)
    ELSE metric

\* the series of shift i
TSShifted(map, i, StartTime, EndTime, Period, shiftInterval) ==
    LET timeOffset == i * shiftInterval
        metric == [Status |-> "Complete",
                   Label |-> IF i = 0 THEN << "current" >>
                             ELSE << "-", convertSecondsToHumanReadable(timeOffset) >>,
                   Timestamps |-> << >>,
                   Values |-> << >>]
    IN  TSWalk(map, metric, StartTime, EndTime, Period, timeOffset)

\* shiftFullMetricData with the loop test i < numberOfShifts
shiftFullMetricDataOneShort(fullMetricData, StartTime, EndTime, Period, shiftInterval, numberOfShifts) ==
    LET map == TSMetricDataMap(fullMetricData)
    IN  [MetricDataResults |->
            [k \in 1..numberOfShifts |->
                TSShifted(map, k - 1, StartTime, EndTime, Period, shiftInterval)]]

shiftFullMetricData(fullMetricData, StartTime, EndTime, Period, shiftInterval, numberOfShifts) ==
    LET map == TSMetricDataMap(fullMetricData)
    IN  [MetricDataResults |->
            [k \in 1..(numberOfShifts + 1) |->
                TSShifted(map, k - 1, StartTime, EndTime, Period, shiftInterval)]]

\* roundedStart without the rounding
TSRoundedStartUnrounded(req) == req.StartTime

\* StartTime - (StartTime % Period)
TSRoundedStart(req) == req.StartTime - (req.StartTime % req.Period)

\* roundedStart - shiftInterval * numberOfShifts
TSFullShiftStart(req) ==
    TSRoundedStart(req)
        - parseISO8601DurationString(req.shiftIntervalString) * req.numberOfShifts

\* validateGetMetricDataRequest throws
TSInvalid(req) ==
    \/ parseISO8601DurationString(req.shiftIntervalString) <= 0
    \/ req.numberOfShifts < 1
    \/ req.numberOfShifts > 10

\* the time shift's StartTime: an even and an odd second, so that for Period 2
\* a StartTime on the period grid and one off it both occur, with room for
\* every shift below
TSStartTimes == {2 * (MaxShifts + 1), 2 * (MaxShifts + 1) + 1}

TSRequests ==
    {r \in [StartTime : TSStartTimes,
            EndTime : (Min(TSStartTimes) + 1)..(Max(TSStartTimes) + MaxSlots * 2),
            Period : Periods,
            shiftIntervalString : DurationStrings,
            numberOfShifts : 0..MaxShifts] :
        /\ r.EndTime > r.StartTime
        /\ r.EndTime <= r.StartTime + MaxSlots * r.Period}

\* What the backend can answer to the query [fullShiftStart, EndTime) with
\* the one query m1: samples at up to MaxSamples instants of the range
TSBackendResults(req) ==
    LET range == TSFullShiftStart(req)..(req.EndTime - 1)
        instants == {P \in SUBSET range : Cardinality(P) <= MaxSamples}
    IN  { << SeriesOf("m1", f) >> : f \in UNION { [P -> SampleValues] : P \in instants } }

\* the moving average connector is not invoked
MAIdle == maPc = "idle" /\ maReq = Undefined /\ maData = Undefined /\ maResp = Undefined

TSFrame == UNCHANGED <<maVars, binVars, hVars, restVars>>

TSInit ==
    /\ MAIdle
    /\ RestIdle
    /\ BinIdle
    /\ HistIdle
    /\ tsPc = "start"
    /\ tsReq \in TSRequests
    /\ tsData = Undefined
    /\ tsResp = Undefined

\* validateGetMetricDataRequest throws; exports.handler catches
TSValidationFails ==
    /\ tsPc = "start"
    /\ TSInvalid(tsReq)
    /\ tsPc' = "done"
    /\ tsResp' = [Error |-> [Code |-> "Validation"]]
    /\ UNCHANGED <<tsReq, tsData>>
    /\ TSFrame

\* validation passes and cloudwatch.getMetricData is awaited
TSFetch ==
    /\ tsPc = "start"
    /\ ~TSInvalid(tsReq)
    /\ tsPc' = "fetching"
    /\ UNCHANGED <<tsReq, tsData, tsResp>>
    /\ TSFrame

\* the awaited call rejects; exports.handler catches
TSFetchFails ==
    /\ tsPc = "fetching"
    /\ tsPc' = "done"
    /\ tsResp' = [Error |-> [Code |-> "InternalError"]]
    /\ UNCHANGED <<tsReq, tsData>>
    /\ TSFrame

\* the awaited call resolves and the handler runs to its return
TSFetchReturns ==
    /\ tsPc = "fetching"
    /\ \E data \in TSBackendResults(tsReq) :
        /\ tsData' = data
        /\ tsResp' = shiftFullMetricData(data[1], TSRoundedStart(tsReq), tsReq.EndTime,
                        tsReq.Period,
                        parseISO8601DurationString(tsReq.shiftIntervalString),
                        tsReq.numberOfShifts)
    /\ tsPc' = "done"
    /\ UNCHANGED tsReq
    /\ TSFrame

TSNext == TSValidationFails \/ TSFetch \/ TSFetchFails \/ TSFetchReturns

SpecTS == TSInit /\ [][TSNext]_vars

\* an invocation of either connector that looks samples up by timestamp
SpecLookup == (MAInit \/ TSInit) /\ [][MANext \/ TSNext]_vars

----------------------------------------------------------------------------
(* Histogram connector: the bin mapping *)

(* A metric value is held by its sign and, for a nonzero value, the position *)
(* q of its magnitude on a logarithmic lattice:                              *)
(*     |value| = (1 + EPSILON)^(q / BinSubdivisions),                         *)
(* so that Math.log(Math.abs(value)) / BIN_SIZE is q / BinSubdivisions and   *)
(* Math.exp(n * BIN_SIZE) is the lattice point n * BinSubdivisions, both     *)
(* exactly.  Values are compared through sign and q.                         *)
Val(sign, q) == [sign |-> sign, q |-> q]

ZERO_VALUE == Val(0, 0)

MAX_BIN_RANGE == 7000

MIN_BIN_RANGE == -MAX_BIN_RANGE

ZERO_VALUE_BIN == MIN_BIN_RANGE - 1

\* NEGATIVE_ONE_BIN_OFFSET one too high
NegativeOneBinOffsetOneOff == -2 * MAX_BIN_RANGE - 1

NEGATIVE_ONE_BIN_OFFSET == -2 * MAX_BIN_RANGE - 2

SMALLEST_BIN == NEGATIVE_ONE_BIN_OFFSET + MAX_BIN_RANGE

\* a < b on values
ValLess(a, b) ==
    \/ a.sign < b.sign
    \/ a.sign = 1 /\ b.sign = 1 /\ a.q < b.q
    \/ a.sign = -1 /\ b.sign = -1 /\ a.q > b.q

\* -value
ValNeg(a) == Val(-a.sign, a.q)

constrainBinToAllowedRange(binNumber) ==
    IF binNumber > MAX_BIN_RANGE THEN MAX_BIN_RANGE
    ELSE IF binNumber < MIN_BIN_RANGE THEN MIN_BIN_RANGE
    ELSE binNumber

\* Math.floor(Math.log(Math.abs(value)) / BIN_SIZE)
FloorLogBin(value) ==
    IF value.q >= 0 THEN value.q \div BinSubdivisions
    ELSE -((-value.q + BinSubdivisions - 1) \div BinSubdivisions)

\* getBinNumber without constrainBinToAllowedRange
getBinNumberUnclamped(value) ==
    IF value = ZERO_VALUE THEN ZERO_VALUE_BIN
    ELSE LET binNumber == FloorLogBin(value)
         IN  IF ValLess(ZERO_VALUE, value) THEN binNumber
             ELSE NEGATIVE_ONE_BIN_OFFSET - binNumber

getBinNumber(value) ==
    IF value = ZERO_VALUE THEN ZERO_VALUE_BIN
    ELSE LET binNumber == constrainBinToAllowedRange(FloorLogBin(value))
         IN  IF ValLess(ZERO_VALUE, value) THEN binNumber
             ELSE NEGATIVE_ONE_BIN_OFFSET - binNumber

\* the lattice points of bin b
BinPoints(b) == (b * BinSubdivisions)..(b * BinSubdivisions + BinSubdivisions - 1)

\* the unclamped bins whose values getBinNumber is applied to: below, at and
\* above both saturation bounds, and around magnitude 1
BinAnchors == {MIN_BIN_RANGE - 1, MIN_BIN_RANGE, MIN_BIN_RANGE + 1, -1, 0, 1,
               MAX_BIN_RANGE - 1, MAX_BIN_RANGE, MAX_BIN_RANGE + 1}

BinValues ==
    {ZERO_VALUE} \cup
    {Val(sg, q) : sg \in {-1, 1}, q \in UNION {BinPoints(b) : b \in BinAnchors}}

BinFrame == UNCHANGED <<maVars, tsVars, hVars, restVars>>

BinInit ==
    /\ MAIdle
    /\ RestIdle
    /\ TSIdle
    /\ HistIdle
    /\ binArgs \in BinValues \X BinValues
    /\ binOut = Undefined

\* getBinNumber applied to both values
BinApply ==
    /\ binOut = Undefined
    /\ binOut' = << getBinNumber(binArgs[1]), getBinNumber(binArgs[2]) >>
    /\ UNCHANGED binArgs
    /\ BinFrame

BinNext == BinApply

SpecBin == BinInit /\ [][BinNext]_vars

----------------------------------------------------------------------------
(* Histogram connector: the handler *)

MIN_BUCKET_COUNT == 1

MAX_BUCKET_COUNT == 500

\* Math.log(0.0001) / BIN_SIZE = -96.6354..., in units of 1/10000
LOG_MIN_VALUE_FOR_HIST_E4 == -966355

\* MIN_VALUE_FOR_HIST: 0.0001 lies strictly between two lattice points; the
\* upper one stands for it, so that a lattice value is below 0.0001 exactly
\* when it is below this one, and both fall into the same bin
MIN_VALUE_FOR_HIST ==
    Val(1, ((LOG_MIN_VALUE_FOR_HIST_E4 * BinSubdivisions) \div 10000) + 1)

\* getValueWithinBin for a whole offset
getValueWithinBin(binNum, offset) ==
    IF binNum = ZERO_VALUE_BIN THEN ZERO_VALUE
    ELSE LET negative == binNum <= SMALLEST_BIN
             binNumber == constrainBinToAllowedRange(
                              IF negative THEN NEGATIVE_ONE_BIN_OFFSET - binNum ELSE binNum)
         IN  Val(IF negative THEN -1 ELSE 1, (binNumber + offset) * BinSubdivisions)

getBinTop(binNumber) == getValueWithinBin(binNumber + 1, 0)

\* Math.round(num / den) for den > 0: halves go up
Round(num, den) == (2 * num + den) \div (2 * den)

\* validateGetMetricDataRequest throws on the bucket count
HistInvalid(req) ==
    req.bucketCount < MIN_BUCKET_COUNT \/ req.bucketCount > MAX_BUCKET_COUNT

\* minBucketNum
HistMinBucketNum(min) ==
    LET useZeroBucketForMin == ValLess(min, MIN_VALUE_FOR_HIST)
    IN  IF useZeroBucketForMin THEN getBinNumber(MIN_VALUE_FOR_HIST) ELSE getBinNumber(min)

\* maxBucketNum
HistMaxBucketNum(max) == getBinNumber(max)

\* The loop state on entry: `bin` is held as the whole number bin * bucketCount
\* (incBucket = numBuckets / bucketCount is a fraction with that denominator)
HistLoopInit(min, max, bucketCount) ==
    [binTimesCount |-> HistMinBucketNum(min) * bucketCount,
     currentBucketBottom |-> min,
     metricDefinitions |-> << >>,
     dropped |-> 0]

RECURSIVE IsPowerOfTwo(_)
IsPowerOfTwo(n) == n = 1 \/ (n > 1 /\ n % 2 = 0 /\ IsPowerOfTwo(n \div 2))

\* Whether the floating point sums bin += incBucket are exact: incBucket =
\* numBuckets / bucketCount is then a binary fraction.  Otherwise each sum is
\* rounded, and a sum whose exact value is maxBucketNum may come out on either
\* side of it.
HistSumsExact(min, max, bucketCount) ==
    LET numBuckets == HistMaxBucketNum(max) - HistMinBucketNum(min)
    IN  numBuckets <= 0 \/ IsPowerOfTwo(bucketCount \div Gcd(numBuckets, bucketCount))

\* The bin numbers and the bucket count for which the sums of the loop were
\* evaluated in IEEE 754 double arithmetic, where incBucket is no binary
\* fraction: every pair of the bins of HistStatValues, with thirds
HistEvaluated == {-97, 0, 1, 2, 5} \X {-97, 0, 1, 2, 5} \X {3}

\* Those among them where the last sum comes out above maxBucketNum:
\* -97 + 97/3 + 97/3 + 97/3 is 1.4e-14, not 0
HistOvershoots == {<< -97, 0, 3 >>}

\* minBucketNum, maxBucketNum and bucketCount of a call
HistLoopBounds(min, max, bucketCount) ==
    << HistMinBucketNum(min), HistMaxBucketNum(max), bucketCount >>

\* bin <= maxBucketNum can come out true
HistLoopTestTrue(loop, min, max, bucketCount) ==
    \/ loop.binTimesCount < HistMaxBucketNum(max) * bucketCount
    \/ /\ loop.binTimesCount = HistMaxBucketNum(max) * bucketCount
       /\ HistLoopBounds(min, max, bucketCount) \notin HistOvershoots

\* bin <= maxBucketNum can come out false
HistLoopTestFalse(loop, min, max, bucketCount) ==
    \/ loop.binTimesCount > HistMaxBucketNum(max) * bucketCount
    \/ /\ loop.binTimesCount = HistMaxBucketNum(max) * bucketCount
       /\ ~HistSumsExact(min, max, bucketCount)
       /\ \/ HistLoopBounds(min, max, bucketCount) \in HistOvershoots
          \/ HistLoopBounds(min, max, bucketCount) \notin HistEvaluated

\* One pass of the loop body, then bin += incBucket
HistLoopBody(loop, min, max, bucketCount) ==
    LET numBuckets == HistMaxBucketNum(max) - HistMinBucketNum(min)
        binRound == Round(loop.binTimesCount, bucketCount)
        top == getBinTop(binRound)
    IN  [binTimesCount |-> loop.binTimesCount + numBuckets,
         currentBucketBottom |-> top,
         metricDefinitions |->
            Append(loop.metricDefinitions,
                   [Id |-> binRound, bottom |-> loop.currentBucketBottom, top |-> top]),
         dropped |-> loop.dropped]

\* the metric values the backend reports as Minimum and Maximum: zero, a
\* negative value, a value below MIN_VALUE_FOR_HIST, two values in bin 0 and
\* values in bins 1, 2 and 5
HistStatValues ==
    {ZERO_VALUE, Val(-1, 0), Val(1, -100 * BinSubdivisions), Val(1, 0), Val(1, 1),
     Val(1, BinSubdivisions), Val(1, 2 * BinSubdivisions), Val(1, 5 * BinSubdivisions)}

\* basicStats of a metric that has samples
HistBasicStats ==
    {st \in [Minimum : HistStatValues, Maximum : HistStatValues,
             SampleCount : 1..MaxSampleCount] :
        st.Minimum = st.Maximum \/ ValLess(st.Minimum, st.Maximum)}

\* the percentages (PR statistics) the backend reports for a bucket
Percentages == {0, 25, 50, 100}

\* The number of definitions the model keeps: the loop goes on past it, the
\* definitions it pushes from there on are dropped, and `dropped` is the
\* parity of their number
HistDefinitionsCap == MaxBuckets + 3

\* One pass of the loop, keeping at most HistDefinitionsCap definitions
HistLoopPass(loop, min, max, bucketCount) ==
    LET next == HistLoopBody(loop, min, max, bucketCount)
    IN  IF Len(loop.metricDefinitions) < HistDefinitionsCap THEN next
        ELSE [next EXCEPT !.metricDefinitions = loop.metricDefinitions,
                          !.dropped = 1 - loop.dropped]

HistRequests == [bucketCount : 0..MaxBuckets]

HistFrame == UNCHANGED <<maVars, tsVars, binVars, restVars>>

HistInit ==
    /\ MAIdle
    /\ RestIdle
    /\ TSIdle
    /\ BinIdle
    /\ hPc = "start"
    /\ hReq \in HistRequests
    /\ hStats = Undefined
    /\ hLoop = Undefined
    /\ hData = Undefined
    /\ hResp = Undefined

\* validateGetMetricDataRequest throws; exports.handler catches
HistValidationFails ==
    /\ hPc = "start"
    /\ HistInvalid(hReq)
    /\ hPc' = "done"
    /\ hResp' = [Error |-> [Code |-> "Validation"]]
    /\ UNCHANGED <<hReq, hStats, hLoop, hData>>
    /\ HistFrame

\* validation passes; getMetricBasicStats awaits getMetricData
HistFetchStats ==
    /\ hPc = "start"
    /\ ~HistInvalid(hReq)
    /\ hPc' = "fetchingStats"
    /\ UNCHANGED <<hReq, hStats, hLoop, hData, hResp>>
    /\ HistFrame

\* an awaited getMetricData rejects; exports.handler catches
HistFetchFails ==
    /\ hPc \in {"fetchingStats", "fetchingData"}
    /\ hPc' = "done"
    /\ hResp' = [Error |-> [Code |-> "InternalError"]]
    /\ UNCHANGED <<hReq, hStats, hLoop, hData>>
    /\ HistFrame

\* the basic statistics arrive; getHistogramMetricDefinitions is entered
HistStatsReturn ==
    /\ hPc = "fetchingStats"
    /\ \E st \in HistBasicStats :
        /\ hStats' = st
        /\ hLoop' = HistLoopInit(st.Minimum, st.Maximum, hReq.bucketCount)
    /\ hPc' = "defs"
    /\ UNCHANGED <<hReq, hData, hResp>>
    /\ HistFrame

\* one iteration of the loop of getHistogramMetricDefinitions
HistLoopStep ==
    /\ hPc = "defs"
    /\ HistLoopTestTrue(hLoop, hStats.Minimum, hStats.Maximum, hReq.bucketCount)
    /\ hLoop' = HistLoopPass(hLoop, hStats.Minimum, hStats.Maximum, hReq.bucketCount)
    /\ UNCHANGED <<hPc, hReq, hStats, hData, hResp>>
    /\ HistFrame

\* the loop ends; getHistogramData awaits getMetricData for the definitions
HistFetchData ==
    /\ hPc = "defs"
    /\ HistLoopTestFalse(hLoop, hStats.Minimum, hStats.Maximum, hReq.bucketCount)
    /\ hPc' = "fetchingData"
    /\ UNCHANGED <<hReq, hStats, hLoop, hData, hResp>>
    /\ HistFrame

\* Math.round((percent * basicStats.SampleCount) / 100) rounding down
HistCountFloor(percent, sampleCount) == (percent * sampleCount) \div 100

\* Math.round((percent * basicStats.SampleCount) / 100)
HistCount(percent, sampleCount) == Round(percent * sampleCount, 100)

\* the percentages arrive, one per definition, and are converted to counts
HistDataReturn ==
    /\ hPc = "fetchingData"
    /\ \E percents \in [1..Len(hLoop.metricDefinitions) -> Percentages] :
        /\ hData' = percents
        /\ hResp' = [MetricDataResults |->
                        [k \in 1..Len(hLoop.metricDefinitions) |->
                            [Id |-> hLoop.metricDefinitions[k].Id,
                             Values |-> << HistCount(percents[k], hStats.SampleCount) >>,
                             Unit |-> "Count"]]]
    /\ hPc' = "done"
    /\ UNCHANGED <<hReq, hStats, hLoop>>
    /\ HistFrame

HistNext ==
    \/ HistValidationFails
    \/ HistFetchStats
    \/ HistFetchFails
    \/ HistStatsReturn
    \/ HistLoopStep
    \/ HistFetchData
    \/ HistDataReturn

SpecHist == HistInit /\ [][HistNext]_vars

\* The runtime keeps executing a handler that can take a step, and every
\* awaited getMetricData settles.
SpecHistLive == SpecHist /\ WF_vars(HistNext)

----------------------------------------------------------------------------
(* Moving average: the claims *)

\* the backend's m1 series, read off the stored result by its Id
MARaw == CHOOSE r \in {maData[1], maData[2]} : r.Id = "m1"

MARawTimer == CHOOSE r \in {maData[1], maData[2]} : r.Id = "timer"

\* the instants (seconds) at which the backend returned a sample of m1
MARawInstants == {t \in 0..maReq.EndTime :
                    \E i \in DOMAIN MARaw.Timestamps : MARaw.Timestamps[i] = t * MsPerSec}

MARawValueAt(t) ==
    MARaw.Values[CHOOSE i \in DOMAIN MARaw.Timestamps : MARaw.Timestamps[i] = t * MsPerSec]

\* the N grid slots t-(N-1)*Period, ..., t-Period, t
MASlots(t) == {t - k * maReq.Period : k \in 0..(maReq.numberOfDatapoints - 1)}

RECURSIVE MASum(_)
MASum(T) == IF T = {} THEN 0
            ELSE LET t == CHOOSE x \in T : TRUE IN MARawValueAt(t) + MASum(T \ {t})

MAReturned == maPc = "done" /\ "MetricDataResults" \in DOMAIN maResp

MAOut == maResp.MetricDataResults[1]

\* the instant the backend's timer series starts at
MAEarliest == Min({t \in 0..maReq.EndTime :
                    \E i \in DOMAIN MARawTimer.Timestamps :
                        MARawTimer.Timestamps[i] = t * MsPerSec})

\* C1: no point is emitted at a timestamp whose window of N slots holds no
\* sample of the raw series
C1_NoPointForEmptyWindow ==
    MAReturned =>
        \A i \in DOMAIN MAOut.Timestamps :
            MASlots(MAOut.Timestamps[i]) \cap MARawInstants # {}

\* C1 witness: the raw series has samples, a point is emitted, and a walked
\* timestamp inside the query window is left out because its window is empty
C1_Witness ==
    /\ MAReturned
    /\ Len(MAOut.Timestamps) > 0
    /\ \E t \in maReq.StartTime..(maReq.EndTime - 1) :
        /\ (t - MAEarliest) % maReq.Period = 0
        /\ MASlots(t) \cap MARawInstants = {}
        /\ \A i \in DOMAIN MAOut.Timestamps : MAOut.Timestamps[i] # t

\* C2 (as claimed): every emitted value is the mean of exactly the raw samples
\* present at the N slots t-(N-1)*Period .. t, whatever the earliest timestamp
\* the backend reports
C2_ValueIsMeanOfNSlots ==
    MAReturned =>
        \A i \in DOMAIN MAOut.Timestamps :
            LET present == MASlots(MAOut.Timestamps[i]) \cap MARawInstants
            IN  /\ present # {}
                /\ MAOut.Values[i] = Divide(MASum(present), Cardinality(present))

\* C3: every emitted timestamp lies in [StartTime, EndTime)
C3_EmittedInsideWindow ==
    MAReturned =>
        \A i \in DOMAIN MAOut.Timestamps :
            /\ maReq.StartTime <= MAOut.Timestamps[i]
            /\ MAOut.Timestamps[i] < maReq.EndTime

\* C3 witness: the backend's earliest timestamp is not the theoretical start,
\* a sample was fetched from before StartTime, and a point is emitted
C3_Witness ==
    /\ MAReturned
    /\ MAEarliest # MARevisedStartTime(maReq)
    /\ \E t \in MARawInstants : t < maReq.StartTime
    /\ Len(MAOut.Timestamps) > 0

\* the instants of [StartTime, EndTime) on the backend's grid at which the
\* raw series has a sample
MAPresentInWindow ==
    {t \in maReq.StartTime..(maReq.EndTime - 1) :
        (t - MAEarliest) % maReq.Period = 0 /\ t \in MARawInstants}

MAOutInstants == {MAOut.Timestamps[i] : i \in DOMAIN MAOut.Timestamps}

\* C22 (as claimed): whatever earliest timestamp the timer series reports,
\* every grid timestamp of [StartTime, EndTime) at which the raw series has a
\* sample yields an output point at that timestamp
C22_SampleYieldsPoint ==
    MAReturned => MAPresentInWindow \subseteq MAOutInstants

\* the same while the timer series starts at or before StartTime
MACompleteFromStartTime ==
    (MAReturned /\ MAEarliest <= maReq.StartTime) =>
        MAPresentInWindow \subseteq MAOutInstants

\* the timer series starts after StartTime, the raw series has samples in
\* the window, and nothing is emitted
MALateStartEmitsNothing ==
    /\ MAReturned
    /\ MAEarliest > maReq.StartTime
    /\ MAPresentInWindow # {}
    /\ MAOutInstants = {}

----------------------------------------------------------------------------
(* Time shift: the claims *)

TSReturned == tsPc = "done" /\ "MetricDataResults" \in DOMAIN tsResp

TSRaw == tsData[1]

\* the raw series as a set of (instant in seconds, value) points
TSRawPoints ==
    {<< t, TSRaw.Values[i] >> :
        t \in {x \in 0..tsReq.EndTime : \E j \in DOMAIN TSRaw.Timestamps :
                                            TSRaw.Timestamps[j] = x * MsPerSec},
        i \in DOMAIN TSRaw.Timestamps} \cap
    {<< TSRaw.Timestamps[i] \div MsPerSec, TSRaw.Values[i] >> : i \in DOMAIN TSRaw.Timestamps}

\* the points of output series number k (shift index k - 1)
TSPoints(k) ==
    LET m == tsResp.MetricDataResults[k]
    IN  {<< m.Timestamps[i], m.Values[i] >> : i \in DOMAIN m.Timestamps}

TSAscending(k) ==
    LET m == tsResp.MetricDataResults[k]
    IN  /\ Len(m.Timestamps) = Len(m.Values)
        /\ \A i \in 1..(Len(m.Timestamps) - 1) : m.Timestamps[i] < m.Timestamps[i + 1]

TSShiftInterval == parseISO8601DurationString(tsReq.shiftIntervalString)

\* the grid the handler walks: the multiples of Period from StartTime rounded
\* down to one, below EndTime
TSGrid == {t \in 0..(tsReq.EndTime - 1) :
            t % tsReq.Period = 0 /\ t > tsReq.StartTime - tsReq.Period}

\* the backend's samples all lie on multiples of Period
TSRawOnPeriodGrid == \A p \in TSRawPoints : p[1] % tsReq.Period = 0

----------------------------------------------------------------------------
(* Lookup by timestamp: the claims *)

\* the times the moving average's loop walks
MAWalked == GridFrom(MAEarliest, maReq.EndTime, maReq.Period)

\* the loop state of metricDataToMovingAverage after the pass at time t
MAStateAt(t) ==
    MALoop(MATimestampMap(MARaw),
           [window |-> << >>, count |-> 0, total |-> 0, ts |-> << >>, vs |-> << >>],
           MAEarliest, maReq.StartTime, t + 1, maReq.Period)

\* the times of the slots windowOfValues holds after the pass at time t
MAWindowTimes(t) ==
    {t - k * maReq.Period : k \in 0..(Len(MAStateAt(t).window) - 1)}

\* the instant the time shift looks up for grid point t of shift index i
TSLookedUp(t, i) == t - i * TSShiftInterval

\* C25: in the moving average, after every pass currentSampleCount is the
\* number of window slots at which the raw series has a sample, whatever its
\* value, and sampleTotal is the sum of those samples, and a point is emitted
\* at a walked time of the window exactly when that number is positive; in
\* the time shift a grid point is emitted with the value of the sample at its
\* looked-up instant, whatever that value, and skipped when there is none
C25_GapsAndZerosKeptApart ==
    /\ MAReturned =>
        \A t \in MAWalked :
            LET present == MAWindowTimes(t) \cap MARawInstants
            IN  /\ MAStateAt(t).count = Cardinality(present)
                /\ MAStateAt(t).total = MASum(present)
                /\ t >= maReq.StartTime => (t \in MAOutInstants <=> present # {})
    /\ TSReturned =>
        \A i \in 0..tsReq.numberOfShifts : \A t \in TSGrid :
            LET there == {p \in TSRawPoints : p[1] = TSLookedUp(t, i)}
                here == {p \in TSPoints(i + 1) : p[1] = t}
            IN  here = {<< t, p[2] >> : p \in there}

\* C25 witness: the moving average emits a point whose window holds a gap
\* and a single sample, of value 0, and the point's value is 0
C25_Witness ==
    /\ MAReturned
    /\ \E i \in DOMAIN MAOut.Timestamps :
        LET t == MAOut.Timestamps[i]
            present == MAWindowTimes(t) \cap MARawInstants
        IN  /\ Cardinality(present) = 1
            /\ Cardinality(MAWindowTimes(t)) > 1
            /\ MASum(present) = 0
            /\ MAOut.Values[i] = Divide(0, 1)

\* the time shift emits a point of value 0 in a shifted series and skips a
\* grid point of the same series that has no sample at its looked-up instant
TSZeroEmittedGapSkipped ==
    /\ TSReturned
    /\ \E k \in 2..Len(tsResp.MetricDataResults) :
        /\ \E p \in TSPoints(k) : p[2] = 0
        /\ \E t \in TSGrid : \A p \in TSPoints(k) : p[1] # t

----------------------------------------------------------------------------
(* Histogram bin mapping: the claims *)

BinApplied == binOut # Undefined

\* C7: getBinNumber is monotonic on positive values, maps values of different
\* sign to different bins (also at the saturation bounds), and maps 0 to the
\* one bin MIN_BIN_RANGE - 1 that no nonzero value maps to
C7_BinMonotonicSignSeparating ==
    BinApplied =>
        LET a == binArgs[1]
            b == binArgs[2]
        IN  /\ (ValLess(ZERO_VALUE, a) /\ ValLess(a, b)) => binOut[1] <= binOut[2]
            /\ a.sign # b.sign => binOut[1] # binOut[2]
            /\ a.sign = 0 => binOut[1] = -7001
            /\ a.sign # 0 => binOut[1] # -7001

\* C7 witness: x saturates at the upper bound, and -x is the other value
C7_Witness ==
    /\ BinApplied
    /\ binArgs[1].sign = 1
    /\ binArgs[1].q >= (MAX_BIN_RANGE + 1) * BinSubdivisions
    /\ binArgs[2] = ValNeg(binArgs[1])
    /\ binOut[1] = MAX_BIN_RANGE

\* C8 (as claimed): the bin of 0 is below the bin of every negative value
C8_ZeroBinBelowNegatives ==
    BinApplied =>
        (binArgs[1].sign = 0 /\ binArgs[2].sign = -1 => binOut[1] < binOut[2])

\* C8 (amended): the bin of 0 is above the bin of every negative value and
\* below the bin of every positive value
C8_ZeroBinBetweenSigns ==
    BinApplied =>
        /\ (binArgs[1].sign = 0 /\ binArgs[2].sign = -1 => binOut[2] < binOut[1])
        /\ (binArgs[1].sign = 0 /\ binArgs[2].sign = 1 => binOut[1] < binOut[2])

\* C8 witness: 0 and a negative value whose magnitude saturates at the lower
\* bound, the negative bin nearest to the bin of 0
C8_Witness ==
    /\ BinApplied
    /\ binArgs[1].sign = 0
    /\ binArgs[2].sign = -1
    /\ binArgs[2].q < MIN_BIN_RANGE * BinSubdivisions
    /\ binOut[2] = binOut[1] - 1

----------------------------------------------------------------------------
(* Histogram handler: the claims *)

\* getHistogramMetricDefinitions has returned its definitions
HistDefinitionsBuilt == hPc \in {"fetchingData", "done"} /\ hLoop # Undefined

\* C9 (as claimed), for positive values: for 0 < min < max at most bucketCount
\* buckets are constructed, and bucketCount = 1 yields exactly one
C9_AtMostBucketCountBuckets ==
    (/\ HistDefinitionsBuilt
     /\ ValLess(ZERO_VALUE, hStats.Minimum)
     /\ ValLess(hStats.Minimum, hStats.Maximum)) =>
        /\ Len(hLoop.metricDefinitions) <= hReq.bucketCount
        /\ hReq.bucketCount = 1 => Len(hLoop.metricDefinitions) = 1

HistReturned == hPc = "done" /\ "MetricDataResults" \in DOMAIN hResp

RECURSIVE SumTo(_, _)
SumTo(f, n) == IF n = 0 THEN 0 ELSE f[n] + SumTo(f, n - 1)

HistCounts == [k \in DOMAIN hResp.MetricDataResults |-> hResp.MetricDataResults[k].Values[1]]

\* C10: every bucket value v is the integer nearest to percentage *
\* SampleCount / 100 (halves up: x - 1/2 < v <= x + 1/2), and when the
\* percentages sum to 100 the counts sum to SampleCount within 1/2 per bucket
C10_CountsRoundPercentages ==
    HistReturned =>
        LET n == Len(hResp.MetricDataResults)
            total == hStats.SampleCount
            sum == SumTo(HistCounts, n)
        IN  /\ n = Len(hData)
            /\ \A k \in 1..n :
                /\ 2 * hData[k] * total - 100 < 200 * HistCounts[k]
                /\ 200 * HistCounts[k] <= 2 * hData[k] * total + 100
            /\ SumTo(hData, n) = 100 =>
                /\ 2 * (sum - total) <= n
                /\ 2 * (total - sum) <= n

\* C10 witness: the percentages sum to 100, a bucket's share is rounded up
\* from a half, and the counts do not sum to SampleCount
C10_Witness ==
    /\ HistReturned
    /\ SumTo(hData, Len(hData)) = 100
    /\ \E k \in DOMAIN hData :
        (2 * hData[k] * hStats.SampleCount) % 200 = 100
    /\ SumTo(HistCounts, Len(hData)) # hStats.SampleCount

\* an iteration of the loop leaves `bin` where it was: incBucket is 0
HistLoopStalls ==
    /\ hPc = "defs"
    /\ HistLoopTestTrue(hLoop, hStats.Minimum, hStats.Maximum, hReq.bucketCount)
    /\ HistLoopBody(hLoop, hStats.Minimum, hStats.Maximum, hReq.bucketCount).binTimesCount
           = hLoop.binTimesCount

\* C21 (as claimed): for min <= max the loop of getHistogramMetricDefinitions
\* ends after finitely many buckets
C21_ConstructionTerminates == (hPc = "defs") ~> (hPc # "defs")

\* min and max fall into one bin, and the loop has passed bucketCount + 1
\* buckets without moving
C21_StalledPastBucketCount ==
    /\ HistLoopStalls
    /\ HistMinBucketNum(hStats.Minimum) = HistMaxBucketNum(hStats.Maximum)
    /\ Len(hLoop.metricDefinitions) > hReq.bucketCount + 1

\* only loops that do not move have definitions dropped
HistCapOnlyWhenStalled ==
    (hPc = "defs" /\ Len(hLoop.metricDefinitions) = HistDefinitionsCap) => HistLoopStalls

\* a <= b on values
ValLeq(a, b) == a = b \/ ValLess(a, b)

\* the loop has ended where the last sum came out above maxBucketNum
HistOvershot ==
    /\ HistDefinitionsBuilt
    /\ HistLoopBounds(hStats.Minimum, hStats.Maximum, hReq.bucketCount) \in HistOvershoots

\* C23 (as claimed): the first bucket's bottom is the observed minimum, each
\* later bucket's bottom is the previous bucket's top, tops are
\* non-decreasing, and for max >= 0.0001 below the saturation bound the last
\* bucket's top is greater than max
C23_BucketsTileRange ==
    HistDefinitionsBuilt =>
        LET defs == hLoop.metricDefinitions
            n == Len(defs)
        IN  /\ n > 0 => defs[1].bottom = hStats.Minimum
            /\ \A k \in 2..n :
                /\ defs[k].bottom = defs[k - 1].top
                /\ ValLeq(defs[k - 1].top, defs[k].top)
            /\ (/\ ~ValLess(hStats.Maximum, MIN_VALUE_FOR_HIST)
                /\ HistMaxBucketNum(hStats.Maximum) < MAX_BIN_RANGE) =>
                    /\ n > 0
                    /\ ValLess(hStats.Maximum, defs[n].top)

\* the same wherever the last sum does not come out above maxBucketNum
HistTilesUnlessOvershot == ~HistOvershot => C23_BucketsTileRange

\* the last sum came out above maxBucketNum, and max is at or above the last
\* bucket's top
HistOvershotLeavesMaxOut ==
    /\ HistOvershot
    /\ Len(hLoop.metricDefinitions) = hReq.bucketCount
    /\ ValLeq(hLoop.metricDefinitions[hReq.bucketCount].top, hStats.Maximum)

\* C24 (as claimed): no two constructed bucket definitions share an Id,
\* also where the bin-index span is smaller than bucketCount
C24_DistinctIds ==
    HistDefinitionsBuilt =>
        \A i, j \in DOMAIN hLoop.metricDefinitions :
            i # j => hLoop.metricDefinitions[i].Id # hLoop.metricDefinitions[j].Id

\* the same where the step incBucket is at least one bin
HistDistinctIdsForWideSpan ==
    (/\ HistDefinitionsBuilt
     /\ HistMaxBucketNum(hStats.Maximum) - HistMinBucketNum(hStats.Minimum)
            >= hReq.bucketCount) => C24_DistinctIds

\* a span of one bin cut into two steps: the buckets are m0, m1 and m1
HistRepeatedId ==
    /\ HistDefinitionsBuilt
    /\ hReq.bucketCount = 2
    /\ HistMaxBucketNum(hStats.Maximum) - HistMinBucketNum(hStats.Minimum) = 1
    /\ Len(hLoop.metricDefinitions) = 3
    /\ hLoop.metricDefinitions[2].Id = hLoop.metricDefinitions[3].Id

----------------------------------------------------------------------------
(* Threshold filter connector *)

\* largest number of values in a series the backend returns to the filter
MaxValues == 2

\* the numbers of series the backend returns to the filter
FilterSeriesCounts == 0..2

\* the values of those series
FilterValues == {0, 1, 2}

\* the moving average, time shift, histogram connectors and getBinNumber are
\* not invoked
CoreIdle == MAIdle /\ TSIdle /\ BinIdle /\ HistIdle

\* null
Null == "null"

\* a parsed number: NaN or the number n
NaN == [isNaN |-> TRUE, n |-> 0]

Num(n) == [isNaN |-> FALSE, n |-> n]

\* A filter string is held as its sequence of tokens: " " for one space
\* character, any other token for a run of non-space characters (a word).
\* Two words are never adjacent.
VALID_STATS == {"MIN", "MAX", "AVG", "SUM"}

VALID_CONDITIONS == {">", "<", "==", ">=", "<=", "!="}

StatWords == VALID_STATS \cup {"max"}

ConditionWords == VALID_CONDITIONS \cup {"=>"}

ValueWords == {"1", "x"}

\* the filter strings a request of this model carries: empty and blank ones,
\* '<stat> <condition> <value>' over the words above, one with surplus spaces,
\* and ones with one, two and four words
FilterStrings ==
    {<< >>, <<" ">>, <<" ", " ">>}
    \cup {<<st, " ", c, " ", v>> : st \in StatWords, c \in ConditionWords, v \in ValueWords}
    \cup {<<" ", "MAX", " ", " ", ">", " ", "1", " ">>,
          <<"MAX>1">>,
          <<"MAX", " ", ">">>,
          <<"MAX", " ", ">", " ", "1", " ", "1">>}

\* str.replace(/ +/g, ' ')
RECURSIVE CollapseSpaces(_)
CollapseSpaces(str) ==
    IF Len(str) < 2 THEN str
    ELSE IF str[1] = " " /\ str[2] = " " THEN CollapseSpaces(Tail(str))
    ELSE << str[1] >> \o CollapseSpaces(Tail(str))

\* str.trim()
RECURSIVE Trim(_)
Trim(str) ==
    IF str = << >> THEN str
    ELSE IF str[1] = " " THEN Trim(Tail(str))
    ELSE IF str[Len(str)] = " " THEN Trim(SubSeq(str, 1, Len(str) - 1))
    ELSE str

\* str.split(' '): the parts between the spaces, '' for an empty part
RECURSIVE SplitOnSpace(_, _)
SplitOnSpace(str, part) ==
    IF str = << >> THEN << part >>
    ELSE IF str[1] = " " THEN << part >> \o SplitOnSpace(Tail(str), "")
    ELSE SplitOnSpace(Tail(str), str[1])

\* parseFloat(valueString)
ParseFloat(valueString) ==
    CASE valueString = "0" -> Num(0)
      [] valueString = "1" -> Num(1)
      [] valueString = "2" -> Num(2)
      [] OTHER -> NaN

\* parseFilter: the filter, or the cause of the Error it throws
parseFilter(filterString) ==
    LET filterParts == SplitOnSpace(Trim(CollapseSpaces(filterString)), "")
    IN  IF Len(filterParts) = 1 /\ filterParts[1] = "" THEN [stat |-> Null]
        ELSE IF Len(filterParts) # 3 THEN [throws |-> "Validation"]
        ELSE LET stat == filterParts[1]
                 condition == filterParts[2]
                 value == ParseFloat(filterParts[3])
             IN  IF stat \notin VALID_STATS THEN [throws |-> "Validation"]
                 ELSE IF condition \notin VALID_CONDITIONS THEN [throws |-> "Validation"]
                 ELSE [stat |-> stat, condition |-> condition, value |-> value]

\* a < b on fractions
FracLess(a, b) == a[1] * b[2] < b[1] * a[2]

\* the switch on filter.condition; every comparison with NaN is false, but !==
FilterCompare(stat, condition, value) ==
    IF value.isNaN THEN condition = "!="
    ELSE LET v == << value.n, 1 >>
         IN  CASE condition = ">" -> FracLess(v, stat)
               [] condition = ">=" -> ~FracLess(stat, v)
               [] condition = "<" -> FracLess(stat, v)
               [] condition = "<=" -> ~FracLess(v, stat)
               [] condition = "==" -> stat = v
               [] condition = "!=" -> stat # v
               [] OTHER -> FALSE

\* values.slice(1).forEach(...) from index i on, max never updated
RECURSIVE FilterFoldMinOnly(_, _, _)
FilterFoldMinOnly(values, acc, i) ==
    IF i > Len(values) THEN acc
    ELSE LET value == values[i]
         IN  FilterFoldMinOnly(values,
                 [sum |-> acc.sum + value,
                  min |-> IF value < acc.min THEN value ELSE acc.min,
                  max |-> acc.max],
                 i + 1)

\* values.slice(1).forEach(...) from index i on
RECURSIVE FilterFold(_, _, _)
FilterFold(values, acc, i) ==
    IF i > Len(values) THEN acc
    ELSE LET value == values[i]
         IN  FilterFold(values,
                 [sum |-> acc.sum + value,
                  min |-> IF value < acc.min THEN value ELSE acc.min,
                  max |-> IF value < acc.min THEN acc.max
                          ELSE IF value > acc.max THEN value ELSE acc.max],
                 i + 1)

\* statMatchesFilter without the test for a series of no values
statMatchesFilterKeepsEmpty(values, filter) ==
    IF filter.stat = Null THEN TRUE
    ELSE IF Len(values) = 0 THEN TRUE
    ELSE LET acc == FilterFold(values,
                        [sum |-> values[1], min |-> values[1], max |-> values[1]], 2)
             avg == Divide(acc.sum, Len(values))
             stat == CASE filter.stat = "AVG" -> avg
                       [] filter.stat = "MIN" -> << acc.min, 1 >>
                       [] filter.stat = "MAX" -> << acc.max, 1 >>
                       [] filter.stat = "SUM" -> << acc.sum, 1 >>
         IN  FilterCompare(stat, filter.condition, filter.value)

statMatchesFilter(values, filter) ==
    IF filter.stat = Null THEN TRUE
    ELSE IF Len(values) = 0 THEN FALSE
    ELSE LET acc == FilterFold(values,
                        [sum |-> values[1], min |-> values[1], max |-> values[1]], 2)
             avg == Divide(acc.sum, Len(values))
             stat == CASE filter.stat = "AVG" -> avg
                       [] filter.stat = "MIN" -> << acc.min, 1 >>
                       [] filter.stat = "MAX" -> << acc.max, 1 >>
                       [] filter.stat = "SUM" -> << acc.sum, 1 >>
         IN  FilterCompare(stat, filter.condition, filter.value)

\* the series the backend returns: Id, Date timestamps, values
FilterSeries(id, values) ==
    [Id |-> id,
     Timestamps |-> [i \in 1..Len(values) |-> NewDate(i)],
     Values |-> values]

FilterValueSeqs == UNION {[1..n -> FilterValues] : n \in 0..MaxValues}

\* getMetricDataResult.MetricDataResults for the expression
FilterBackendResults ==
    UNION {{[k \in 1..n |-> FilterSeries(k, vs[k])] : vs \in [1..n -> FilterValueSeqs]} :
           n \in FilterSeriesCounts}

\* metric.Timestamps.map((ts) => ts.getTime() / 1000)
FilterConvert(metric) ==
    [Id |-> metric.Id,
     Timestamps |-> [i \in 1..Len(metric.Timestamps) |-> metric.Timestamps[i] \div MsPerSec],
     Values |-> metric.Values]

\* metrics.filter(...) from index i on
RECURSIVE FilterMetrics(_, _, _)
FilterMetrics(metrics, filter, i) ==
    IF i > Len(metrics) THEN << >>
    ELSE IF statMatchesFilter(metrics[i].Values, filter)
         THEN << FilterConvert(metrics[i]) >> \o FilterMetrics(metrics, filter, i + 1)
         ELSE FilterMetrics(metrics, filter, i + 1)

FilterRequests == [filterString : FilterStrings]

FilterFrame ==
    UNCHANGED <<maVars, tsVars, binVars, hVars, mrVars, hwVars, eVars, pfmVars, durVars>>

FilterInit ==
    /\ CoreIdle
    /\ MRIdle
    /\ HWIdle
    /\ EntryIdle
    /\ PfmIdle
    /\ DurIdle
    /\ fPc = "start"
    /\ fReq \in FilterRequests
    /\ fData = Undefined
    /\ fResp = Undefined

\* parseFilter throws; exports.handler catches
FilterValidationFails ==
    /\ fPc = "start"
    /\ "throws" \in DOMAIN parseFilter(fReq.filterString)
    /\ fPc' = "done"
    /\ fResp' = [Error |-> [Code |-> parseFilter(fReq.filterString).throws]]
    /\ UNCHANGED <<fReq, fData>>
    /\ FilterFrame

\* validation passes and cloudwatch.getMetricData is awaited
FilterFetch ==
    /\ fPc = "start"
    /\ "throws" \notin DOMAIN parseFilter(fReq.filterString)
    /\ fPc' = "fetching"
    /\ UNCHANGED <<fReq, fData, fResp>>
    /\ FilterFrame

\* the awaited call rejects; exports.handler catches
FilterFetchFails ==
    /\ fPc = "fetching"
    /\ fPc' = "done"
    /\ fResp' = [Error |-> [Code |-> "InternalError"]]
    /\ UNCHANGED <<fReq, fData>>
    /\ FilterFrame

\* the awaited call resolves and the handler filters the series
FilterFetchReturns ==
    /\ fPc = "fetching"
    /\ \E metrics \in FilterBackendResults :
        /\ fData' = metrics
        /\ fResp' = [MetricDataResults |->
                        FilterMetrics(metrics, parseFilter(fReq.filterString), 1)]
    /\ fPc' = "done"
    /\ UNCHANGED fReq
    /\ FilterFrame

FilterNext ==
    \/ FilterValidationFails
    \/ FilterFetch
    \/ FilterFetchFails
    \/ FilterFetchReturns

SpecFilter == FilterInit /\ [][FilterNext]_vars

----------------------------------------------------------------------------
(* Threshold filter: the claims *)

FilterReturned == fPc = "done" /\ "MetricDataResults" \in DOMAIN fResp

\* the Ids of the returned series, in order
FilterKeptIds == [k \in DOMAIN fResp.MetricDataResults |-> fResp.MetricDataResults[k].Id]

FilterIsKept(id) == \E k \in DOMAIN FilterKeptIds : FilterKeptIds[k] = id

\* the predicate of the request is empty (no word in the filter string)
FilterPredicateEmpty == \A i \in DOMAIN fReq.filterString : fReq.filterString[i] = " "

\* C11: with the empty predicate every input series is returned, also those
\* of no data points; with a non-empty predicate no series of no data points
\* is returned
C11_EmptyPredicateKeepsAllElseDropsEmpty ==
    FilterReturned =>
        /\ FilterPredicateEmpty =>
            /\ Len(fResp.MetricDataResults) = Len(fData)
            /\ \A k \in DOMAIN fData : FilterKeptIds[k] = fData[k].Id
        /\ ~FilterPredicateEmpty =>
            \A k \in DOMAIN fData : Len(fData[k].Values) = 0 => ~FilterIsKept(fData[k].Id)

\* C11 witness: a blank filter string returns two series, one without data
\* points
C11_Witness ==
    /\ FilterReturned
    /\ fReq.filterString = <<" ">>
    /\ Len(fResp.MetricDataResults) = 2
    /\ Len(fData[1].Values) = 0
    /\ Len(fData[2].Values) > 0

\* C11 second witness: under 'MIN != x' (threshold NaN) a series with data
\* is kept and the series without data points is dropped
C11_WitnessDropped ==
    /\ FilterReturned
    /\ fReq.filterString = <<"MIN", " ", "!=", " ", "x">>
    /\ Len(fData) = 2
    /\ Len(fData[1].Values) = 0
    /\ FilterKeptIds = << 2 >>

\* the words of the request's filter string
FilterWords == SelectSeq(fReq.filterString, LAMBDA w : w # " ")

\* the set of a series' values
FilterValueSet(values) == {values[i] : i \in DOMAIN values}

\* whether the statistic of the values stands in the relation condition to
\* the number threshold; the average sum/count is compared as sum against
\* threshold * count
FilterSatisfies(stat, condition, threshold, values) ==
    LET count == Len(values)
        sum == SumTo(values, count)
        a == CASE stat = "MIN" -> Min(FilterValueSet(values))
               [] stat = "MAX" -> Max(FilterValueSet(values))
               [] stat = "SUM" -> sum
               [] stat = "AVG" -> sum
        b == IF stat = "AVG" THEN threshold * count ELSE threshold
    IN  CASE condition = ">" -> a > b
          [] condition = ">=" -> a >= b
          [] condition = "<" -> a < b
          [] condition = "<=" -> a <= b
          [] condition = "==" -> a = b
          [] condition = "!=" -> a # b

\* C12: for a non-empty predicate with a numeric threshold, a series with at
\* least one value is returned if and only if its statistic satisfies the
\* comparison; the returned series are input series, in the input's order
C12_KeptIffStatisticSatisfies ==
    (FilterReturned /\ ~FilterPredicateEmpty /\ ~ParseFloat(FilterWords[3]).isNaN) =>
        LET kept == fResp.MetricDataResults
        IN  /\ \A k \in DOMAIN fData :
                Len(fData[k].Values) > 0 =>
                    (FilterIsKept(fData[k].Id) <=>
                        FilterSatisfies(FilterWords[1], FilterWords[2],
                                        ParseFloat(FilterWords[3]).n, fData[k].Values))
            /\ \A j \in DOMAIN kept :
                /\ kept[j].Id \in DOMAIN fData
                /\ kept[j].Values = fData[kept[j].Id].Values
            /\ \A i, j \in DOMAIN kept : i < j => kept[i].Id < kept[j].Id

\* C12 witness: under 'MAX > 1' the series 0, 2 is returned and the series
\* 1, 1 before it is not
C12_Witness ==
    /\ FilterReturned
    /\ FilterWords = <<"MAX", ">", "1">>
    /\ Len(fData) = 2
    /\ fData[1].Values = <<1, 1>>
    /\ fData[2].Values = <<0, 2>>
    /\ FilterKeptIds = << 2 >>

----------------------------------------------------------------------------
(* Multi-region connector *)

\* largest number of comma-separated fields in the regions argument
MaxRegions == 3

\* The regions argument is held as its comma-separated fields
\* (regions.split(',')), a field as its tokens: " " for a space, a word for
\* a run of other characters.  The fields of this model: a region, a region
\* written with underscores and surrounded by spaces, and a blank field.
RegionFields == {<<"us-east-1">>, <<" ", "eu_west_1", " ">>, <<" ">>}

RegionStrings == UNION {[1..n -> RegionFields] : n \in 1..MaxRegions}

\* regions.split(',').map((region) => region.trim()).filter((reg) => reg),
\* a region as its one word
MRRegionList(regions) ==
    LET trimmed == [k \in DOMAIN regions |-> Trim(regions[k])]
        kept == SelectSeq(trimmed, LAMBDA field : field # << >>)
    IN  [k \in DOMAIN kept |-> kept[k][1]]

\* region.replace(/-/g, '_')
DashesToUnderscores(region) ==
    CASE region = "us-east-1" -> "us_east_1"
      [] region = "eu-west-1" -> "eu_west_1"
      [] OTHER -> region

\* Id.replace(/_/g, '-')
UnderscoresToDashes(id) ==
    CASE id = "us_east_1" -> "us-east-1"
      [] id = "eu_west_1" -> "eu-west-1"
      [] OTHER -> id

\* the values a regional result carries
MRResultValues == {0, 1}

\* MetricDataResults[0] of a regional call: the query's Id comes back with
\* one sample
MRResult(region, value) ==
    [Id |-> DashesToUnderscores(region),
     Timestamps |-> << NewDate(1) >>,
     Values |-> << value >>]

\* one element of collatedResults
MRCollate(metric) ==
    [Label |-> UnderscoresToDashes(metric.Id),
     Timestamps |-> [i \in DOMAIN metric.Timestamps |-> metric.Timestamps[i] \div MsPerSec],
     Values |-> metric.Values,
     StatusCode |-> "Complete"]

MRPending == [state |-> "pending", result |-> Undefined]

\* the value of Promise.all, were it the results in the order of settling
MRResultsInSettleOrder(calls, order) == [k \in DOMAIN calls |-> calls[order[k]].result]

\* the value Promise.all resolves with: the results in the order of the calls
MRResults(calls, order) == [k \in DOMAIN calls |-> calls[k].result]

\* Promise.all resolves
MRAllFulfilled(calls) == \A k \in DOMAIN calls : calls[k].state = "fulfilled"

\* Promise.all rejecting at any time
MRRejectsAnyTime(calls) == TRUE

\* Promise.all rejects
MRSomeRejected(calls) == \E k \in DOMAIN calls : calls[k].state = "rejected"

\* the catch block's return value, were the fulfilled results added to it
MRFailureWithResults(calls) ==
    [Error |-> [Code |-> "InternalError"],
     MetricDataResults |->
        LET fulfilled == SelectSeq(calls, LAMBDA c : c.state = "fulfilled")
        IN  [k \in DOMAIN fulfilled |-> MRCollate(fulfilled[k].result)]]

\* the catch block's return value for a rejected call
MRFailure(calls) == [Error |-> [Code |-> "InternalError"]]

MRRequests == [regions : RegionStrings]

MRFrame ==
    UNCHANGED <<maVars, tsVars, binVars, hVars, fVars, hwVars, eVars, pfmVars, durVars>>

MRInit ==
    /\ CoreIdle
    /\ FilterIdle
    /\ HWIdle
    /\ EntryIdle
    /\ PfmIdle
    /\ DurIdle
    /\ mrPc = "start"
    /\ mrReq \in MRRequests
    /\ mrCalls = Undefined
    /\ mrOrder = Undefined
    /\ mrResp = Undefined

\* validateGetMetricDataRequest throws; exports.handler catches
MRValidationFails ==
    /\ mrPc = "start"
    /\ Len(MRRegionList(mrReq.regions)) < 1
    /\ mrPc' = "done"
    /\ mrResp' = [Error |-> [Code |-> "Validation"]]
    /\ UNCHANGED <<mrReq, mrCalls, mrOrder>>
    /\ MRFrame

\* validation passes; one getMetricData call per region is issued and
\* Promise.all is awaited
MRFetch ==
    /\ mrPc = "start"
    /\ ~(Len(MRRegionList(mrReq.regions)) < 1)
    /\ mrPc' = "fetching"
    /\ mrCalls' = [k \in DOMAIN MRRegionList(mrReq.regions) |-> MRPending]
    /\ mrOrder' = << >>
    /\ UNCHANGED <<mrReq, mrResp>>
    /\ MRFrame

\* a regional call resolves
MRCallFulfils ==
    /\ mrPc \in {"fetching", "done"}
    /\ mrCalls # Undefined
    /\ \E k \in DOMAIN mrCalls, value \in MRResultValues :
        /\ mrCalls[k].state = "pending"
        /\ mrCalls' = [mrCalls EXCEPT ![k] =
                          [state |-> "fulfilled",
                           result |-> MRResult(MRRegionList(mrReq.regions)[k], value)]]
        /\ mrOrder' = Append(mrOrder, k)
    /\ UNCHANGED <<mrPc, mrReq, mrResp>>
    /\ MRFrame

\* a regional call rejects
MRCallRejects ==
    /\ mrPc \in {"fetching", "done"}
    /\ mrCalls # Undefined
    /\ \E k \in DOMAIN mrCalls :
        /\ mrCalls[k].state = "pending"
        /\ mrCalls' = [mrCalls EXCEPT ![k] = [state |-> "rejected", result |-> Undefined]]
        /\ mrOrder' = Append(mrOrder, k)
    /\ UNCHANGED <<mrPc, mrReq, mrResp>>
    /\ MRFrame

\* Promise.all has resolved; the handler collates the results and returns
MRJoinFulfilled ==
    /\ mrPc = "fetching"
    /\ MRAllFulfilled(mrCalls)
    /\ mrPc' = "done"
    /\ mrResp' = [MetricDataResults |->
                    LET getMetricDataResults == MRResults(mrCalls, mrOrder)
                    IN  [k \in DOMAIN getMetricDataResults |->
                            MRCollate(getMetricDataResults[k])]]
    /\ UNCHANGED <<mrReq, mrCalls, mrOrder>>
    /\ MRFrame

\* Promise.all has rejected; exports.handler catches
MRJoinRejected ==
    /\ mrPc = "fetching"
    /\ MRSomeRejected(mrCalls)
    /\ mrPc' = "done"
    /\ mrResp' = MRFailure(mrCalls)
    /\ UNCHANGED <<mrReq, mrCalls, mrOrder>>
    /\ MRFrame

MRNext ==
    \/ MRValidationFails
    \/ MRFetch
    \/ MRCallFulfils
    \/ MRCallRejects
    \/ MRJoinFulfilled
    \/ MRJoinRejected

SpecMR == MRInit /\ [][MRNext]_vars

----------------------------------------------------------------------------
(* Multi-region: the claims *)

MRIssued == mrCalls # Undefined

MRReturned == mrPc = "done" /\ "MetricDataResults" \in DOMAIN mrResp

MRFailed == mrPc = "done" /\ "Error" \in DOMAIN mrResp

\* C13: when every regional call has succeeded, the k-th returned series is
\* the result of the call for the k-th region of the list, whatever the order
\* in which the calls settled
C13_OutputInRegionOrder ==
    MRReturned =>
        LET regionList == MRRegionList(mrReq.regions)
            out == mrResp.MetricDataResults
        IN  /\ Len(out) = Len(regionList)
            /\ \A k \in DOMAIN out :
                /\ out[k].Values = mrCalls[k].result.Values
                /\ out[k].Label = UnderscoresToDashes(regionList[k])
                /\ \A i \in DOMAIN out[k].Timestamps :
                    NewDate(out[k].Timestamps[i]) = mrCalls[k].result.Timestamps[i]

\* C13 witness: three regions, the calls settled in the order 3, 1, 2 and
\* with results that differ
C13_Witness ==
    /\ MRReturned
    /\ mrOrder = <<3, 1, 2>>
    /\ mrCalls[1].result.Values # mrCalls[3].result.Values
    /\ MRRegionList(mrReq.regions)[1] # MRRegionList(mrReq.regions)[3]

\* C14: once a regional call has failed, the response is the one failure
\* object with Code InternalError, and it carries no series
C14_AnyFailureFailsAll ==
    (MRIssued /\ mrPc = "done" /\ MRSomeRejected(mrCalls)) =>
        /\ DOMAIN mrResp = {"Error"}
        /\ mrResp.Error.Code = "InternalError"

\* C14 witness: of three calls two have succeeded and then one has failed
C14_Witness ==
    /\ MRFailed
    /\ MRIssued
    /\ Len(mrCalls) = 3
    /\ Len(mrOrder) = 3
    /\ mrCalls[mrOrder[1]].state = "fulfilled"
    /\ mrCalls[mrOrder[2]].state = "fulfilled"
    /\ mrCalls[mrOrder[3]].state = "rejected"

----------------------------------------------------------------------------
(* parseFullMetric (the same function in every connector that takes a metric) *)

\* largest number of comma-separated fields in a full metric string
MaxFields == 4

\* A full metric string is held as its comma-separated fields
\* (fullMetricString.split(','), never empty: '' has the one field ''), a
\* field as its tokens: " " for a space, a word for a run of other characters.
\* The fields of this model: a plain one, one with a space before it, one with
\* a percent-escape (%2F is '/'), one with a malformed escape, and the empty one.
MetricFields == {<<"AWS/Lambda">>, <<" ", "Duration">>, <<"AWS%2FEC2">>, <<"%">>, << >>}

MetricStrings == UNION {[1..n -> MetricFields] : n \in 1..MaxFields}

\* decodeURIComponent throws URIError
UriMalformed(field) == field = <<"%">>

\* decodeURIComponent(field), never failing: a malformed field comes back as it is
DecodeLenient(field) ==
    IF field = <<"AWS%2FEC2">> THEN [value |-> <<"AWS/EC2">>]
    ELSE [value |-> field]

\* decodeURIComponent(field): the decoded field, or the error it throws (a
\* URIError has no cause)
DecodeURIComponent(field) ==
    IF UriMalformed(field) THEN [throws |-> [name |-> "URIError", cause |-> Undefined]]
    ELSE IF field = <<"AWS%2FEC2">> THEN [value |-> <<"AWS/EC2">>]
    ELSE [value |-> field]

\* the loop over the dimension pairs from dimIndex on (0-based, as in the code)
RECURSIVE PfmDimensions(_, _)
PfmDimensions(decoded, dimIndex) ==
    IF dimIndex < Len(decoded) - 1
    THEN << [Name |-> decoded[dimIndex + 1].value, Value |-> decoded[dimIndex + 2].value] >>
         \o PfmDimensions(decoded, dimIndex + 2)
    ELSE << >>

\* parseFullMetric: the metric, or the error it throws
parseFullMetric(fullMetricString) ==
    LET metricFields == [k \in DOMAIN fullMetricString |-> Trim(fullMetricString[k])]
        decoded == [k \in DOMAIN metricFields |-> DecodeURIComponent(metricFields[k])]
        failing == {k \in DOMAIN decoded : "throws" \in DOMAIN decoded[k]}
    IN  IF Len(metricFields) < 2 \/ Len(metricFields) % 2 # 0
        THEN [throws |-> [name |-> "Error", cause |-> Some("Validation")]]
        ELSE IF failing # {} THEN [throws |-> decoded[Min(failing)].throws]
        ELSE [Namespace |-> decoded[1].value,
              MetricName |-> decoded[2].value,
              Dimensions |-> PfmDimensions(decoded, 2)]

PfmFrame == UNCHANGED <<maVars, tsVars, binVars, hVars, fVars, mrVars, hwVars, eVars, durVars>>

PfmInit ==
    /\ CoreIdle
    /\ FilterIdle
    /\ MRIdle
    /\ HWIdle
    /\ EntryIdle
    /\ DurIdle
    /\ pfmArg \in MetricStrings
    /\ pfmOut = Undefined

\* parseFullMetric applied to the string
PfmApply ==
    /\ pfmOut = Undefined
    /\ pfmOut' = parseFullMetric(pfmArg)
    /\ UNCHANGED pfmArg
    /\ PfmFrame

PfmNext == PfmApply

SpecPfm == PfmInit /\ [][PfmNext]_vars

----------------------------------------------------------------------------
(* parseFullMetric: the claims *)

PfmApplied == pfmOut # Undefined

PfmThrewValidation ==
    /\ "throws" \in DOMAIN pfmOut
    /\ pfmOut.throws.cause = Some("Validation")

\* field k of the string, trimmed and percent-decoded where it can be decoded
PfmField(k) == DecodeLenient(Trim(pfmArg[k])).value

\* C18 (as claimed): an odd field count or one below 2 is a Validation
\* failure; any other string parses to namespace = field 1, metric name =
\* field 2 and (fieldCount - 2) / 2 dimension pairs, pair k being fields
\* 2k + 1 and 2k + 2
C18_ParseFullMetric ==
    PfmApplied =>
        LET fieldCount == Len(pfmArg)
        IN  IF fieldCount < 2 \/ fieldCount % 2 = 1
            THEN PfmThrewValidation
            ELSE /\ "throws" \notin DOMAIN pfmOut
                 /\ pfmOut.Namespace = PfmField(1)
                 /\ pfmOut.MetricName = PfmField(2)
                 /\ 2 * Len(pfmOut.Dimensions) = fieldCount - 2
                 /\ \A k \in DOMAIN pfmOut.Dimensions :
                     /\ pfmOut.Dimensions[k].Name = PfmField(2 * k + 1)
                     /\ pfmOut.Dimensions[k].Value = PfmField(2 * k + 2)

\* the strings of an even number of fields, none of them malformed, parse as
\* claimed: a string with a percent-escape and one dimension pair is among them
PfmWellFormedParsed ==
    /\ PfmApplied
    /\ Len(pfmArg) = 4
    /\ pfmArg[1] = <<"AWS%2FEC2">>
    /\ \A k \in DOMAIN pfmArg : ~UriMalformed(Trim(pfmArg[k]))
    /\ pfmOut.Namespace = <<"AWS/EC2">>
    /\ Len(pfmOut.Dimensions) = 1

----------------------------------------------------------------------------
(* Hello world connector *)

\* an element of Arguments: a string or a number
JsString(str) == [type |-> "string", s |-> str, n |-> 0]

JsNumber(num) == [type |-> "number", s |-> "", n |-> num]

\* the Arguments lists a hello world request of this model carries
HWArguments ==
    {<<JsString("metricLabel"), JsNumber(10)>>,
     <<JsString("metricLabel"), JsNumber(0)>>,
     <<JsString("metricLabel")>>,
     <<JsString("metricLabel"), JsNumber(10), JsNumber(10)>>,
     <<JsNumber(10), JsNumber(10)>>,
     <<JsString("metricLabel"), JsString("10")>>}

HWRequests ==
    {r \in [StartTime : {0, 1},
            EndTime : 0..(1 + MaxSlots * 2),
            Period : Periods,
            Arguments : HWArguments] :
        r.EndTime <= r.StartTime + MaxSlots * r.Period}

\* validateGetMetricDataRequest: the validation error, or null
HWValidate(Arguments) ==
    IF Len(Arguments) # 2 THEN [Error |-> [Code |-> "Validation"]]
    ELSE LET metricName == Arguments[1]
             value == Arguments[2]
         IN  IF metricName.type # "string" THEN [Error |-> [Code |-> "Validation"]]
             ELSE IF value.type # "number" THEN [Error |-> [Code |-> "Validation"]]
             ELSE [null |-> TRUE]

\* currentTime < EndTime, were it currentTime <= EndTime
HWLoopTestInclusive(currentTime, EndTime) == currentTime <= EndTime

\* currentTime < EndTime
HWLoopTest(currentTime, EndTime) == currentTime < EndTime

HWFrame == UNCHANGED <<maVars, tsVars, binVars, hVars, fVars, mrVars, eVars, pfmVars, durVars>>

HWInit ==
    /\ CoreIdle
    /\ FilterIdle
    /\ MRIdle
    /\ EntryIdle
    /\ PfmIdle
    /\ DurIdle
    /\ hwPc = "start"
    /\ hwReq \in HWRequests
    /\ hwLoop = Undefined
    /\ hwResp = Undefined

\* validateGetMetricDataRequest returns an error and the handler returns it
HWValidationFails ==
    /\ hwPc = "start"
    /\ "Error" \in DOMAIN HWValidate(hwReq.Arguments)
    /\ hwPc' = "done"
    /\ hwResp' = HWValidate(hwReq.Arguments)
    /\ UNCHANGED <<hwReq, hwLoop>>
    /\ HWFrame

\* validation passes; data = [], currentTime = StartTime
HWEnterLoop ==
    /\ hwPc = "start"
    /\ "Error" \notin DOMAIN HWValidate(hwReq.Arguments)
    /\ hwPc' = "loop"
    /\ hwLoop' = [currentTime |-> hwReq.StartTime, data |-> << >>]
    /\ UNCHANGED <<hwReq, hwResp>>
    /\ HWFrame

\* one pass of the while loop
HWLoopStep ==
    /\ hwPc = "loop"
    /\ HWLoopTest(hwLoop.currentTime, hwReq.EndTime)
    /\ hwLoop' = [currentTime |-> hwLoop.currentTime + hwReq.Period,
                  data |-> Append(hwLoop.data,
                                  [timestamp |-> hwLoop.currentTime,
                                   value |-> hwReq.Arguments[2].n])]
    /\ UNCHANGED <<hwPc, hwReq, hwResp>>
    /\ HWFrame

\* the loop ends and the handler returns the series
HWReturn ==
    /\ hwPc = "loop"
    /\ ~HWLoopTest(hwLoop.currentTime, hwReq.EndTime)
    /\ hwPc' = "done"
    /\ hwResp' = [MetricDataResults |->
                    << [StatusCode |-> "Complete",
                        Label |-> hwReq.Arguments[1].s,
                        Timestamps |-> [i \in DOMAIN hwLoop.data |-> hwLoop.data[i].timestamp],
                        Values |-> [i \in DOMAIN hwLoop.data |-> hwLoop.data[i].value]] >>]
    /\ UNCHANGED <<hwReq, hwLoop>>
    /\ HWFrame

HWNext == HWValidationFails \/ HWEnterLoop \/ HWLoopStep \/ HWReturn

SpecHW == HWInit /\ [][HWNext]_vars

----------------------------------------------------------------------------
(* Hello world: the claims *)

HWReturned == hwPc = "done" /\ "MetricDataResults" \in DOMAIN hwResp

\* the instants StartTime + k * Period below EndTime
HWGrid ==
    {t \in hwReq.StartTime..(hwReq.EndTime - 1) : (t - hwReq.StartTime) % hwReq.Period = 0}

\* C19: the one returned series has exactly one point at every instant
\* StartTime + k * Period < EndTime, in ascending order, each with the given
\* value
C19_OnePointPerGridInstant ==
    HWReturned =>
        /\ Len(hwResp.MetricDataResults) = 1
        /\ LET series == hwResp.MetricDataResults[1]
               n == Len(series.Timestamps)
           IN  /\ Len(series.Values) = n
               /\ {series.Timestamps[i] : i \in 1..n} = HWGrid
               /\ n = Cardinality(HWGrid)
               /\ \A i, j \in 1..n : i < j => series.Timestamps[i] < series.Timestamps[j]
               /\ \A i \in 1..n : series.Values[i] = hwReq.Arguments[2].n

\* C19 witness: a window of two grid instants whose end is off the grid
C19_Witness ==
    /\ HWReturned
    /\ hwReq.Period = 2
    /\ hwReq.StartTime = 1
    /\ hwReq.EndTime = 4
    /\ hwResp.MetricDataResults[1].Timestamps = <<1, 3>>
    /\ hwResp.MetricDataResults[1].Values = <<10, 10>>

----------------------------------------------------------------------------
(* exports.handler of every connector, from the event to the response: the  *)
(* dispatch on EventType, the validation of Arguments, the getMetricData     *)
(* calls and the catch block.  What the connectors compute from the data is  *)
(* above; here a success response stands for any.                            *)

DEFAULT_BUCKET_COUNT == 100

Connectors ==
    {"timeshift", "multiregion", "movingaverage", "filter", "histogram", "helloworld"}

EventTypes == {"GetMetricData", "DescribeGetMetricData", "Unknown"}

\* Error(message, { cause: 'Validation' })
ValidationError == [throws |-> [name |-> "Error", cause |-> Some("Validation")]]

\* the full metric arguments: a string of two fields, of one field, of two
\* fields with a malformed percent-escape, and a number
EntryMetricArgs ==
    {[type |-> "string", str |-> m] :
        m \in {<< <<"AWS/Lambda">>, <<" ", "Duration">> >>,
               << <<"AWS/Lambda">> >>,
               << <<"AWS/Lambda">>, <<"%">> >>}}
    \cup {[type |-> "number", str |-> << <<"AWS/Lambda">> >>]}

EntryValidMetric == [type |-> "string", str |-> << <<"AWS/Lambda">>, <<" ", "Duration">> >>]

\* the shift interval arguments: 'PT0S', 'PT1S', 'PT0.5S', a string that
\* stringPattern does not match, and a number
EntryIntervalArgs ==
    {[type |-> "string", matches |-> TRUE, dur |-> d] :
        d \in {PTnS(0), PTnS(1),
               Duration(Undefined, Undefined, Undefined, Some([int |-> 0, millis |-> 500]))}}
    \cup {[type |-> "string", matches |-> FALSE, dur |-> PTnS(0)],
          [type |-> "number", matches |-> FALSE, dur |-> PTnS(0)]}

\* a whole-number argument, or a string in its place
EntryNumberArgs(S) ==
    {[type |-> "number", n |-> n] : n \in S} \cup {[type |-> "string", n |-> 0]}

\* the bucket count arguments: the number n + frac / 10, the string of a whole
\* number, and a string that is no number
EntryBucketArgs ==
    {[type |-> "number", numeric |-> TRUE, n |-> n, frac |-> 0] :
        n \in {0, MIN_BUCKET_COUNT, MAX_BUCKET_COUNT, MAX_BUCKET_COUNT + 1}}
    \cup {[type |-> "number", numeric |-> TRUE, n |-> MAX_BUCKET_COUNT, frac |-> 5],
          [type |-> "number", numeric |-> TRUE, n |-> 0, frac |-> 5],
          [type |-> "string", numeric |-> TRUE, n |-> 7, frac |-> 0],
          [type |-> "string", numeric |-> FALSE, n |-> 0, frac |-> 0]}

\* parseInt(argument, 10): the digits before anything else, NaN without digits
ParseInt(arg) == IF arg.numeric THEN Num(arg.n) ELSE NaN

EntryRegionsArgs ==
    {[type |-> "string", regions |-> << <<"us-east-1">>, <<" ", "eu_west_1", " ">> >>],
     [type |-> "string", regions |-> << <<" ">> >>],
     [type |-> "number", regions |-> << <<" ">> >>]}

EntryFilterArgs ==
    {[type |-> "string", filterString |-> f] :
        f \in {<< >>, <<"MAX", " ", ">", " ", "1">>, <<"MAX>1">>}}
    \cup {[type |-> "number", filterString |-> << >>]}

EntryTypes == {"string", "number"}

\* validateGetMetricDataRequest of the time shift connector
TSValidate(Arguments) ==
    IF Arguments.count # 4 THEN ValidationError
    ELSE IF \/ Arguments.fullMetric.type # "string"
            \/ Arguments.stat # "string"
            \/ Arguments.shiftIntervalString.type # "string"
            \/ Arguments.numberOfShifts.type # "number"
         THEN ValidationError
    ELSE IF ~Arguments.shiftIntervalString.matches THEN ValidationError
    ELSE IF TSInvalid([shiftIntervalString |-> Arguments.shiftIntervalString.dur,
                       numberOfShifts |-> Arguments.numberOfShifts.n])
         THEN ValidationError
    ELSE LET metric == parseFullMetric(Arguments.fullMetric.str)
         IN  IF "throws" \in DOMAIN metric THEN metric
             ELSE [params |->
                     [metric |-> metric,
                      shiftInterval |->
                          parseISO8601DurationString(Arguments.shiftIntervalString.dur),
                      numberOfShifts |-> Arguments.numberOfShifts.n]]

\* numberOfDatapoints < 2, were it < 1
MATooFewDatapointsBelowOne(numberOfDatapoints) == numberOfDatapoints < 1

\* numberOfDatapoints < 2
MATooFewDatapoints(numberOfDatapoints) == numberOfDatapoints < 2

\* validateGetMetricDataRequest of the moving average connector
MAValidate(Arguments) ==
    IF Arguments.count # 3 THEN ValidationError
    ELSE IF \/ Arguments.fullMetric.type # "string"
            \/ Arguments.stat # "string"
            \/ Arguments.numberOfDatapoints.type # "number"
         THEN ValidationError
    ELSE IF MATooFewDatapoints(Arguments.numberOfDatapoints.n) THEN ValidationError
    ELSE LET metric == parseFullMetric(Arguments.fullMetric.str)
         IN  IF "throws" \in DOMAIN metric THEN metric
             ELSE [params |->
                     [metric |-> metric,
                      numberOfDatapoints |-> Arguments.numberOfDatapoints.n]]

\* validateGetMetricDataRequest of the multi-region connector
MRValidate(Arguments) ==
    IF Arguments.count # 3 THEN ValidationError
    ELSE IF \/ Arguments.fullMetric.type # "string"
            \/ Arguments.stat # "string"
            \/ Arguments.regions.type # "string"
         THEN ValidationError
    ELSE LET metric == parseFullMetric(Arguments.fullMetric.str)
             regionList == MRRegionList(Arguments.regions.regions)
         IN  IF "throws" \in DOMAIN metric THEN metric
             ELSE IF Len(regionList) < 1 THEN ValidationError
             ELSE [params |-> [metric |-> metric, regionList |-> regionList]]

\* validateGetMetricDataRequest of the filter connector
FilterValidate(Arguments) ==
    IF Arguments.count # 2 THEN ValidationError
    ELSE IF Arguments.expression # "string" \/ Arguments.filterString.type # "string"
         THEN ValidationError
    ELSE LET filter == parseFilter(Arguments.filterString.filterString)
         IN  IF "throws" \in DOMAIN filter THEN ValidationError
             ELSE [params |-> [filter |-> filter]]

\* validateGetMetricDataRequest of the histogram connector
HistValidate(Arguments) ==
    IF Arguments.count # 1 /\ Arguments.count # 2 THEN ValidationError
    ELSE LET bucketCount == IF Arguments.count = 2 THEN ParseInt(Arguments.bucketCount)
                            ELSE Num(DEFAULT_BUCKET_COUNT)
         IN  IF Arguments.fullMetric.type # "string" THEN ValidationError
             ELSE LET metric == parseFullMetric(Arguments.fullMetric.str)
                  IN  IF "throws" \in DOMAIN metric THEN metric
                      ELSE IF ~bucketCount.isNaN /\ HistInvalid([bucketCount |-> bucketCount.n])
                           THEN ValidationError
                      ELSE [params |-> [metric |-> metric, bucketCount |-> bucketCount]]

\* the Arguments of a GetMetricData event, per connector: count is
\* Arguments.length, the other fields are the elements by position
EntryArguments(connector) ==
    CASE connector = "timeshift" ->
            [count : {4}, fullMetric : EntryMetricArgs, stat : {"string"},
             shiftIntervalString : EntryIntervalArgs,
             numberOfShifts : EntryNumberArgs({0, 1, 10, 11})]
            \cup [count : {3, 4, 5}, fullMetric : {EntryValidMetric}, stat : EntryTypes,
                  shiftIntervalString : {[type |-> "string", matches |-> TRUE, dur |-> PTnS(1)]},
                  numberOfShifts : {[type |-> "number", n |-> 1]}]
      [] connector = "movingaverage" ->
            [count : {3}, fullMetric : EntryMetricArgs, stat : {"string"},
             numberOfDatapoints : EntryNumberArgs({1, 2, 3})]
            \cup [count : {2, 3, 4}, fullMetric : {EntryValidMetric}, stat : EntryTypes,
                  numberOfDatapoints : {[type |-> "number", n |-> 2]}]
      [] connector = "multiregion" ->
            [count : {2, 3, 4}, fullMetric : EntryMetricArgs, stat : EntryTypes,
             regions : EntryRegionsArgs]
      [] connector = "filter" ->
            [count : {1, 2, 3}, expression : EntryTypes, filterString : EntryFilterArgs]
      [] connector = "histogram" ->
            [count : {0, 1, 2, 3}, fullMetric : EntryMetricArgs, bucketCount : EntryBucketArgs]
      [] connector = "helloworld" ->
            {[count |-> Len(a), list |-> a] : a \in HWArguments}

\* the Arguments of the events that are not GetMetricData events
EntryNoArguments == [count |-> 0]

EntryEvents ==
    UNION {[connector : {c}, EventType : {"GetMetricData"}, Arguments : EntryArguments(c)] :
           c \in Connectors}
    \cup [connector : Connectors, EventType : EventTypes \ {"GetMetricData"},
          Arguments : {EntryNoArguments}]

\* validateGetMetricDataRequest of the event's connector: the parameters, or
\* the error thrown (for hello world: returned)
EntryValidate(event) ==
    CASE event.connector = "timeshift" -> TSValidate(event.Arguments)
      [] event.connector = "movingaverage" -> MAValidate(event.Arguments)
      [] event.connector = "multiregion" -> MRValidate(event.Arguments)
      [] event.connector = "filter" -> FilterValidate(event.Arguments)
      [] event.connector = "histogram" -> HistValidate(event.Arguments)
      [] event.connector = "helloworld" ->
            IF "Error" \in DOMAIN HWValidate(event.Arguments.list) THEN ValidationError
            ELSE [params |-> [value |-> event.Arguments.list[2].n]]

\* err.cause || 'InternalError'
ErrorCode(err) == IF err.cause = Undefined THEN "InternalError" ELSE err.cause[1]

\* { Error: { Code: code, Value: message } }
Failure(code) == [Error |-> [Code |-> code, Value |-> "message"]]

\* the handler going on to getMetricData whatever the validation says
EntryFetchesUnvalidated(event) == TRUE

\* the handler goes on to getMetricData: validateGetMetricDataRequest returned
EntryValidated(event) == "params" \in DOMAIN EntryValidate(event)

\* the number of getMetricData calls issued after validation: one per region
\* in the multi-region connector, one in the others
EntryCalls(event) ==
    LET validated == EntryValidate(event)
    IN  IF event.connector = "multiregion" /\ "params" \in DOMAIN validated
        THEN Len(validated.params.regionList)
        ELSE 1

EntryFrame == UNCHANGED <<maVars, tsVars, binVars, hVars, fVars, mrVars, hwVars, pfmVars, durVars>>

EntryInit ==
    /\ CoreIdle
    /\ FilterIdle
    /\ MRIdle
    /\ HWIdle
    /\ PfmIdle
    /\ DurIdle
    /\ ePc = "start"
    /\ eEvent \in EntryEvents
    /\ eFetches = 0
    /\ eParams = Undefined
    /\ eResp = Undefined

\* case 'DescribeGetMetricData'
EntryDescribe ==
    /\ ePc = "start"
    /\ eEvent.EventType = "DescribeGetMetricData"
    /\ ePc' = "done"
    /\ eResp' = [DataSourceConnectorName |-> eEvent.connector]
    /\ UNCHANGED <<eEvent, eFetches, eParams>>
    /\ EntryFrame

\* default: the Error with cause 'Validation' is thrown and caught (hello
\* world returns getValidationError)
EntryUnknownEventType ==
    /\ ePc = "start"
    /\ eEvent.EventType \notin {"GetMetricData", "DescribeGetMetricData"}
    /\ ePc' = "done"
    /\ eResp' = Failure(ErrorCode(ValidationError.throws))
    /\ UNCHANGED <<eEvent, eFetches, eParams>>
    /\ EntryFrame

\* validateGetMetricDataRequest throws; exports.handler catches
EntryValidationFails ==
    /\ ePc = "start"
    /\ eEvent.EventType = "GetMetricData"
    /\ "throws" \in DOMAIN EntryValidate(eEvent)
    /\ ePc' = "done"
    /\ eResp' = Failure(ErrorCode(EntryValidate(eEvent).throws))
    /\ UNCHANGED <<eEvent, eFetches, eParams>>
    /\ EntryFrame

\* hello world: validation passes and the series is returned
EntryHelloWorldReturns ==
    /\ ePc = "start"
    /\ eEvent.EventType = "GetMetricData"
    /\ eEvent.connector = "helloworld"
    /\ EntryValidated(eEvent)
    /\ ePc' = "done"
    /\ eParams' = EntryValidate(eEvent)
    /\ eResp' = [MetricDataResults |-> "series"]
    /\ UNCHANGED <<eEvent, eFetches>>
    /\ EntryFrame

\* validation passes; the handler issues its getMetricData call(s) and awaits
EntryFetch ==
    /\ ePc = "start"
    /\ eEvent.EventType = "GetMetricData"
    /\ eEvent.connector # "helloworld"
    /\ EntryValidated(eEvent)
    /\ ePc' = "fetching"
    /\ eParams' = EntryValidate(eEvent)
    /\ eFetches' = eFetches + EntryCalls(eEvent)
    /\ UNCHANGED <<eEvent, eResp>>
    /\ EntryFrame

\* histogram: the basic statistics arrive and the call for the buckets is
\* issued
EntryHistSecondFetch ==
    /\ ePc = "fetching"
    /\ eEvent.connector = "histogram"
    /\ eFetches = 1
    /\ eFetches' = 2
    /\ UNCHANGED <<ePc, eEvent, eParams, eResp>>
    /\ EntryFrame

\* an awaited call rejects, or the handler throws on the data it received (a
\* TypeError on a missing result); exports.handler catches
EntryFetchFails ==
    /\ ePc = "fetching"
    /\ ePc' = "done"
    /\ eResp' = Failure(ErrorCode([name |-> "Error", cause |-> Undefined]))
    /\ UNCHANGED <<eEvent, eFetches, eParams>>
    /\ EntryFrame

\* the awaited calls resolve and the handler returns its series
EntryFetchReturns ==
    /\ ePc = "fetching"
    /\ eEvent.connector = "histogram" => eFetches = 2
    /\ ePc' = "done"
    /\ eResp' = [MetricDataResults |-> "series"]
    /\ UNCHANGED <<eEvent, eFetches, eParams>>
    /\ EntryFrame

EntryNext ==
    \/ EntryDescribe
    \/ EntryUnknownEventType
    \/ EntryValidationFails
    \/ EntryHelloWorldReturns
    \/ EntryFetch
    \/ EntryHistSecondFetch
    \/ EntryFetchFails
    \/ EntryFetchReturns

SpecEntry == EntryInit /\ [][EntryNext]_vars

----------------------------------------------------------------------------
(* The handlers' entry: the claims *)

EntryDone == ePc = "done"

EntryIsGetMetricData == eEvent.EventType = "GetMetricData"

\* the Arguments of the event do not pass validateGetMetricDataRequest
EntryArgumentsRejected == EntryIsGetMetricData /\ "throws" \in DOMAIN EntryValidate(eEvent)

EntryFailed == EntryDone /\ "Error" \in DOMAIN eResp

\* C15: in the time shift, multi-region, moving average, filter and histogram
\* connectors no getMetricData call is issued for Arguments that fail
\* validation: a run that ends in a Validation failure has issued none
C15_ValidationBeforeFetch ==
    eEvent.connector \in {"timeshift", "multiregion", "movingaverage", "filter", "histogram"} =>
        /\ EntryArgumentsRejected => eFetches = 0
        /\ (EntryFailed /\ eResp.Error.Code = "Validation") => eFetches = 0

\* C15 witness: a histogram run has ended in the Validation failure for the
\* bucket count 501 without a call
C15_Witness ==
    /\ EntryFailed
    /\ eResp.Error.Code = "Validation"
    /\ EntryIsGetMetricData
    /\ eEvent.connector = "histogram"
    /\ eEvent.Arguments.count = 2
    /\ eEvent.Arguments.fullMetric = EntryValidMetric
    /\ eEvent.Arguments.bucketCount.n = MAX_BUCKET_COUNT + 1
    /\ eFetches = 0

\* the failure is one of the caller's arguments: an unrecognized EventType or
\* Arguments that do not pass validation
EntryCallerFailure ==
    \/ eEvent.EventType \notin {"GetMetricData", "DescribeGetMetricData"}
    \/ EntryArgumentsRejected

\* C16 (as claimed): a failure response is the one object {Error: {Code,
\* Value}} without MetricDataResults; its Code is Validation for a failure of
\* the caller's arguments and InternalError for any other failure
C16_OneFailureObjectWithCategory ==
    EntryDone =>
        /\ EntryCallerFailure => EntryFailed
        /\ EntryFailed =>
            /\ DOMAIN eResp = {"Error"}
            /\ DOMAIN eResp.Error = {"Code", "Value"}
            /\ eResp.Error.Code = IF EntryCallerFailure THEN "Validation" ELSE "InternalError"

\* the failures that are classified as claimed: an unrecognized EventType is a
\* Validation failure, and a failing getMetricData is an InternalError
EntryClassifiedAsClaimed ==
    /\ EntryFailed
    /\ eFetches > 0
    /\ eResp = Failure("InternalError")

\* the arguments other than the numeric parameter are valid
EntryOthersValid ==
    LET A == eEvent.Arguments
    IN  CASE eEvent.connector = "movingaverage" ->
                A.count = 3 /\ A.fullMetric = EntryValidMetric /\ A.stat = "string"
          [] eEvent.connector = "timeshift" ->
                A.count = 4 /\ A.fullMetric = EntryValidMetric /\ A.stat = "string"
          [] eEvent.connector = "histogram" ->
                A.count \in {1, 2} /\ A.fullMetric = EntryValidMetric
          [] OTHER -> FALSE

\* the numeric parameters of the event are in range (whole numbers)
EntryInRange ==
    LET A == eEvent.Arguments
    IN  CASE eEvent.connector = "movingaverage" ->
                A.numberOfDatapoints.type = "number" /\ A.numberOfDatapoints.n >= 2
          [] eEvent.connector = "timeshift" ->
                /\ A.numberOfShifts.type = "number"
                /\ A.numberOfShifts.n \in 1..10
                /\ A.shiftIntervalString.type = "string"
                /\ A.shiftIntervalString.matches
                /\ parseISO8601DurationString(A.shiftIntervalString.dur) > 0
          [] eEvent.connector = "histogram" ->
                A.count = 2 =>
                    /\ A.bucketCount.type = "number"
                    /\ A.bucketCount.frac = 0
                    /\ A.bucketCount.n \in 1..500

\* a numeric parameter of the event is out of range (whole numbers)
EntryOutOfRange ==
    LET A == eEvent.Arguments
    IN  CASE eEvent.connector = "movingaverage" ->
                A.numberOfDatapoints.type = "number" /\ A.numberOfDatapoints.n < 2
          [] eEvent.connector = "timeshift" ->
                /\ A.numberOfShifts.type = "number"
                /\ A.shiftIntervalString.type = "string"
                /\ A.shiftIntervalString.matches
                /\ \/ A.numberOfShifts.n \notin 1..10
                   \/ parseISO8601DurationString(A.shiftIntervalString.dur) <= 0
          [] eEvent.connector = "histogram" ->
                /\ A.count = 2
                /\ A.bucketCount.type = "number"
                /\ A.bucketCount.frac = 0
                /\ A.bucketCount.n \notin 1..500

C17_WitnessRejected ==
    /\ EntryDone
    /\ EntryIsGetMetricData
    /\ eEvent.connector = "histogram"
    /\ EntryOthersValid
    /\ eEvent.Arguments.count = 2
    /\ eEvent.Arguments.bucketCount = [type |-> "number", numeric |-> TRUE, n |-> 501, frac |-> 0]
    /\ eResp = Failure("Validation")

----------------------------------------------------------------------------
(* Time shift: parseISO8601DurationString *)

\* largest number written in a component of a duration string
MaxDurationPart == 2

\* the fractions of a second written after the decimal point, in
\* milliseconds: none, '.001' and '.5'
DurationMillis == {0, 1, 500}

\* the days, hours or minutes component: left out, or its digits' number
DurationParts == {Undefined} \cup {Some(n) : n \in 0..MaxDurationPart}

\* the seconds component: left out, or its digits with an optional fraction
DurationSeconds ==
    {Undefined} \cup
    {Some([int |-> n, millis |-> ms]) : n \in 0..MaxDurationPart, ms \in DurationMillis}

\* the strings that match stringPattern, by their capture groups
DurationMatches ==
    {Duration(d, h, m, sec) :
        d \in DurationParts, h \in DurationParts, m \in DurationParts,
        sec \in DurationSeconds}

DurFrame ==
    UNCHANGED <<maVars, tsVars, binVars, hVars, fVars, mrVars, hwVars, eVars, pfmVars>>

DurInit ==
    /\ CoreIdle
    /\ FilterIdle
    /\ MRIdle
    /\ HWIdle
    /\ EntryIdle
    /\ PfmIdle
    /\ durArg \in DurationMatches
    /\ durOut = Undefined

\* parseISO8601DurationString applied to the string
DurApply ==
    /\ durOut = Undefined
    /\ durOut' = Some(parseISO8601DurationString(durArg))
    /\ UNCHANGED durArg
    /\ DurFrame

DurNext == DurApply

SpecDur == DurInit /\ [][DurNext]_vars

----------------------------------------------------------------------------
(* parseISO8601DurationString: the claims *)

DurApplied == durOut # Undefined

\* the number a component denotes, 0 when it is left out
DurPart(g) == IF g = Undefined THEN 0 ELSE g[1]

\* the milliseconds the string denotes: days*86400 + hours*3600 + minutes*60
\* + seconds, the seconds with their fraction
DurDenotedMillis(str) ==
    (DurPart(str.days) * 86400 + DurPart(str.hours) * 3600 + DurPart(str.mins) * 60)
        * MsPerSec
    + (IF str.secs = Undefined THEN 0
       ELSE str.secs[1].int * MsPerSec + str.secs[1].millis)

\* C26 (as claimed): parseISO8601DurationString returns the number of seconds
\* the string denotes, the fraction of the seconds component preserved, so
\* that a string denoting more than 0 seconds is not rejected as <= 0
C26_DurationSecondsPreserved ==
    DurApplied =>
        /\ durOut[1] * MsPerSec = DurDenotedMillis(durArg)
        /\ DurDenotedMillis(durArg) > 0 => ~(durOut[1] <= 0)

\* for a string without a fraction the number returned is the number of
\* seconds denoted
DurWholeSecondsExact ==
    (DurApplied /\ DurDenotedMillis(durArg) % MsPerSec = 0) =>
        durOut[1] * MsPerSec = DurDenotedMillis(durArg)

\* 'PT0.5S' parses to 0
DurHalfSecondIsZero ==
    /\ DurApplied
    /\ durArg = Duration(Undefined, Undefined, Undefined, Some([int |-> 0, millis |-> 500]))
    /\ durOut = Some(0)

====
